---- MODULE Spec2Model ----
(***************************************************************************)
(* The real-estate office backend actor: four keyed collections (agents,   *)
(* properties, inquiries, userProfiles) behind the access-control gate and *)
(* the role policy, with the query surface that reads them.                *)
(*                                                                         *)
(* Text values that take part in a key (city, suburb, area, roadName,      *)
(* customerName) and Nat/Time values printed into a key are modelled by    *)
(* small naturals standing for equal-length strings, so that Text.compare  *)
(* on "a.b.c" is the lexicographic order of the tuple <<a, b, c>>.         *)
(* Principals are naturals ordered as Principal.compare orders them.       *)
(***************************************************************************)
EXTENDS Integers, Sequences, FiniteSets, TLC

VARIABLES userRoles, agents, properties, inquiries, userProfiles, now, last,
          agentLog, propertyLog, inquiryLog, budget, control, loader, picker

\* the actor and what is recorded about its calls
backend == <<userRoles, agents, properties, inquiries, userProfiles, now, last,
             agentLog, propertyLog, inquiryLog, budget>>

\* the browser side: the admin reset control, the map loader, the place picker
frontend == <<control, loader, picker>>

vars == <<backend, frontend>>

stores == <<agents, properties, inquiries, userProfiles>>

(* ------------------------------ bounds --------------------------------- *)
MaxTime == 2
MaxProperties == 2
MaxInquiries == 2
MaxSteps == 4
MaxDeskSteps == 5
MaxListingSteps == 4

Principals == {1, 2, 3}
Times == 1 .. MaxTime

(* ------------------------------ types ---------------------------------- *)
AgentRoles == {"admin", "agent", "juniorAgent", "assistant"}
UserRoles == {"admin", "user", "guest"}
Categories == {"resale", "rental", "underConstruction"}
PropertyTypes == {"residential", "commercial", "industrial"}
Configurations == {"rk1", "bhk1", "bhk1_5", "bhk2", "bhk2_5", "bhk3", "bhk3_5",
                   "bhk4", "bhk5", "jodiFlat", "duplex", "penthouse", "bungalow",
                   "independentHouse"}
Furnishings == {"unfurnished", "semiFurnished", "furnished"}
PropertyStatuses == {"available", "sold", "rented", "underContract"}
InquirySources == {"website", "referral", "walkIn", "phone", "socialMedia"}
InquiryStatuses == {"new", "inProgress", "closed", "followUp"}

Null == "null"
None == <<>>

(* ------------------- mo:core Map / Array helpers ----------------------- *)
RECURSIVE SeqLess(_, _)
SeqLess(a, b) ==
    IF Len(a) = 0 THEN Len(b) > 0
    ELSE IF Len(b) = 0 THEN FALSE
    ELSE IF Head(a) # Head(b) THEN Head(a) < Head(b)
    ELSE SeqLess(Tail(a), Tail(b))

\* Text.compare on a property key city.suburb.area.roadName.price.time
PropertyIdLess(a, b) == SeqLess(a, b)

\* Text.compare on an inquiry key propertyId.customerName.time
InquiryIdLess(a, b) ==
    IF a[1] # b[1] THEN PropertyIdLess(a[1], b[1]) ELSE SeqLess(Tail(a), Tail(b))

PrincipalLess(a, b) == a < b

\* the key compare of a Map: Text.compare or Principal.compare
KeyLess(kind, a, b) ==
    CASE kind = "property" -> PropertyIdLess(a, b)
      [] kind = "inquiry" -> InquiryIdLess(a, b)
      [] OTHER -> PrincipalLess(a, b)

\* the keys of a Map in iteration order: ascending by the key's compare
KeysInOrder(S, kind) ==
    [i \in 1 .. Cardinality(S) |->
        CHOOSE x \in S : Cardinality({y \in S : KeyLess(kind, y, x)}) = i - 1]

\* Map.values().toArray(): the values in ascending key order
MapValues(m, kind) ==
    LET ks == KeysInOrder(DOMAIN m, kind) IN [i \in 1 .. Len(ks) |-> m[ks[i]]]

\* Map.add: insert, or replace the value stored under the key
MapAdd(m, k, v) == [x \in DOMAIN m \cup {k} |-> IF x = k THEN v ELSE m[x]]

EmptyMap == [x \in {} |-> None]

\* one step of a stable sort: x goes after every element not greater than it
RECURSIVE InsertByCreatedAt(_, _)
InsertByCreatedAt(x, s) ==
    IF s = <<>> THEN <<x>>
    ELSE IF Head(s).createdAt <= x.createdAt
         THEN <<Head(s)>> \o InsertByCreatedAt(x, Tail(s))
         ELSE <<x>> \o s

\* Array.sort(func(a, b) { Int.compare(a.createdAt, b.createdAt) }), stable
RECURSIVE SortByCreatedAt(_)
SortByCreatedAt(s) ==
    IF s = <<>> THEN <<>>
    ELSE InsertByCreatedAt(s[Len(s)], SortByCreatedAt(SubSeq(s, 1, Len(s) - 1)))

(* -------------------- access control (Identity Gate) ------------------- *)
\* AccessControl.isAdmin
IsAdmin(caller) == userRoles[caller] = "admin"

\* AccessControl.hasPermission(state, caller, required)
HasPermission(caller, required) ==
    CASE required = "admin" -> userRoles[caller] = "admin"
      [] required = "user" -> userRoles[caller] \in {"admin", "user"}
      [] OTHER -> TRUE

\* AccessControl.assignRole(state, caller, user, role), caller an administrator
AssignRole(roles, user, role) == [roles EXCEPT ![user] = role]

(* ------------------------------ role policy ---------------------------- *)
getAgentRole(principal) ==
    IF principal \notin DOMAIN agents THEN Null
    ELSE IF agents[principal].active THEN agents[principal].role ELSE Null

\* a validity test that asks for the record only
isValidAgentRecord(principal) == principal \in DOMAIN agents

isValidActiveAgent(principal) ==
    IF principal \notin DOMAIN agents THEN FALSE ELSE agents[principal].active

canManageProperties(caller) ==
    IF IsAdmin(caller) THEN TRUE
    ELSE getAgentRole(caller) \in {"admin", "agent", "juniorAgent"}

canViewProperties(caller) ==
    IF IsAdmin(caller) THEN TRUE ELSE getAgentRole(caller) # Null

hasAgentRole(caller) ==
    IF IsAdmin(caller) THEN TRUE ELSE getAgentRole(caller) # Null

canAccessAnalytics(caller) ==
    IF IsAdmin(caller) THEN TRUE
    ELSE getAgentRole(caller) \in {"admin", "agent", "juniorAgent"}

canManageInquiries(caller) ==
    IF IsAdmin(caller) THEN TRUE
    ELSE getAgentRole(caller) \in {"admin", "agent", "juniorAgent", "assistant"}

\* a policy that lets junior agents manage all inquiries, as they may assign
canManageAllInquiriesWithJunior(caller) ==
    IF IsAdmin(caller) THEN TRUE
    ELSE getAgentRole(caller) \in {"admin", "agent", "juniorAgent"}

canManageAllInquiries(caller) ==
    IF IsAdmin(caller) THEN TRUE
    ELSE getAgentRole(caller) \in {"admin", "agent"}

canAssignToOtherAgents(caller) ==
    IF IsAdmin(caller) THEN TRUE
    ELSE getAgentRole(caller) \in {"admin", "agent", "juniorAgent"}

(* ------------------------- inputs of the calls ------------------------- *)
Texts == {1}
InLocations == {[city |-> 1, suburb |-> 1, area |-> 1, roadName |-> r] : r \in {1, 2}}
InCoordinates == {[lat |-> 0, lng |-> 0]}
InPrices == {5}
InCategories == {"resale"}
InPropertyTypes == {"residential"}
InConfigurations == {"bhk2"}
InFurnishings == {"furnished"}
InPropertyStatuses == {"sold"}
InImages == {<<>>}
InSources == {"website"}
InInquiryStatuses == {"closed"}

(* --------------------------- results of calls -------------------------- *)
Ok == "ok"
Unauthorized == "Unauthorized"
NotFound == "NotFound"
InvalidReference == "InvalidReference"

\* the sizes of the four collections
Sizes ==
    <<Cardinality(DOMAIN agents), Cardinality(DOMAIN properties),
      Cardinality(DOMAIN inquiries), Cardinality(DOMAIN userProfiles)>>

\* what the latest completed update call was: its name, caller, the key it
\* addressed, the agent it assigned, the value it returned, the sizes of the
\* collections it found, and which step of the run it was
Call(op, caller, target, assignee, ret) ==
    [op |-> op, caller |-> caller, target |-> target, assignee |-> assignee,
     ret |-> ret, before |-> Sizes, step |-> budget]

\* an update call that completes: it takes one of the steps the run is
\* bounded to and becomes the latest call
Completes(call) ==
    /\ budget > 0
    /\ budget' = budget - 1
    /\ last' = call

\* Runtime.trap: the call is rolled back and nothing it did remains
Traps == UNCHANGED vars

\* the key order of first insertion, kept beside each collection
Logged(log, k) == SelectSeq(log, LAMBDA x : x # k) \o <<k>>

(* --------------------------- user profiles ----------------------------- *)
getCallerUserProfileErr(caller) ==
    IF ~HasPermission(caller, "user") THEN Unauthorized ELSE Ok

getCallerUserProfileRet(caller) ==
    IF caller \in DOMAIN userProfiles THEN userProfiles[caller] ELSE Null

getUserProfileErr(caller, user) ==
    IF ~HasPermission(caller, "user") THEN Unauthorized
    ELSE IF caller # user /\ ~IsAdmin(caller) THEN Unauthorized
    ELSE Ok

getUserProfileRet(user) ==
    IF user \in DOMAIN userProfiles THEN userProfiles[user] ELSE Null

saveCallerUserProfileErr(caller) ==
    IF ~HasPermission(caller, "user") THEN Unauthorized ELSE Ok

\* a save that writes the profile under every principal
saveCallerUserProfileForAll(caller, profile) ==
    IF ~HasPermission(caller, "user") THEN Traps
    ELSE /\ userProfiles' = [u \in Principals |-> profile]
         /\ Completes(Call("saveCallerUserProfile", caller, <<caller>>, None, None))
         /\ UNCHANGED <<frontend, userRoles, agents, properties, inquiries, now,
                        agentLog, propertyLog, inquiryLog>>

saveCallerUserProfile(caller, profile) ==
    IF saveCallerUserProfileErr(caller) # Ok THEN Traps
    ELSE /\ userProfiles' = MapAdd(userProfiles, caller, profile)
         /\ Completes(Call("saveCallerUserProfile", caller, <<caller>>, None, None))
         /\ UNCHANGED <<frontend, userRoles, agents, properties, inquiries, now,
                        agentLog, propertyLog, inquiryLog>>

(* ---------------------------- role assignment -------------------------- *)
\* MixinAuthorization.assignCallerUserRole(user, role): an administrator sets
\* the Identity Gate role of any principal
assignCallerUserRoleErr(caller) ==
    IF ~IsAdmin(caller) THEN Unauthorized ELSE Ok

assignCallerUserRole(caller, user, role) ==
    IF assignCallerUserRoleErr(caller) # Ok THEN Traps
    ELSE /\ userRoles' = AssignRole(userRoles, user, role)
         /\ Completes(Call("assignCallerUserRole", caller, <<user>>, None, None))
         /\ UNCHANGED <<frontend, agents, properties, inquiries, userProfiles, now,
                        agentLog, propertyLog, inquiryLog>>

(* --------------------------- agent management -------------------------- *)
addAgentErr(caller) ==
    IF ~HasPermission(caller, "admin") THEN Unauthorized ELSE Ok

addAgent(caller, agentPrincipal, name, contactInfo, role) ==
    LET agent == [id |-> agentPrincipal, name |-> name, contactInfo |-> contactInfo,
                  role |-> role, active |-> TRUE, createdAt |-> now, updatedAt |-> now]
    IN
    IF addAgentErr(caller) # Ok THEN Traps
    ELSE /\ agents' = MapAdd(agents, agentPrincipal, agent)
         /\ userRoles' = AssignRole(userRoles, agentPrincipal, "user")
         /\ agentLog' = Logged(agentLog, agentPrincipal)
         /\ Completes(Call("addAgent", caller, <<agentPrincipal>>, None, None))
         /\ UNCHANGED <<frontend, properties, inquiries, userProfiles, now,
                        propertyLog, inquiryLog>>

\* an update that also lets in a caller whose Agent role is admin
updateAgentErrByAgentRole(caller, agentId) ==
    IF ~(HasPermission(caller, "admin") \/ getAgentRole(caller) = "admin")
    THEN Unauthorized
    ELSE IF agentId \notin DOMAIN agents THEN NotFound
    ELSE Ok

updateAgentErr(caller, agentId) ==
    IF ~HasPermission(caller, "admin") THEN Unauthorized
    ELSE IF agentId \notin DOMAIN agents THEN NotFound
    ELSE Ok

updateAgent(caller, agentId, name, contactInfo, role) ==
    IF updateAgentErr(caller, agentId) # Ok THEN Traps
    ELSE /\ agents' = MapAdd(agents, agentId,
                        [id |-> agentId, name |-> name, contactInfo |-> contactInfo,
                         role |-> role, active |-> agents[agentId].active,
                         createdAt |-> agents[agentId].createdAt, updatedAt |-> now])
         /\ Completes(Call("updateAgent", caller, <<agentId>>, None, None))
         /\ UNCHANGED <<frontend, userRoles, properties, inquiries, userProfiles, now,
                        agentLog, propertyLog, inquiryLog>>

deactivateAgentErr(caller, agentId) ==
    IF ~HasPermission(caller, "admin") THEN Unauthorized
    ELSE IF agentId \notin DOMAIN agents THEN NotFound
    ELSE Ok

\* a deactivation that also retracts the inquiries assigned to the agent
deactivateAgentRetracting(caller, agentId) ==
    IF ~HasPermission(caller, "admin") \/ agentId \notin DOMAIN agents THEN Traps
    ELSE /\ agents' = MapAdd(agents, agentId,
                             [agents[agentId] EXCEPT !.active = FALSE, !.updatedAt = now])
         /\ inquiries' = [k \in {x \in DOMAIN inquiries :
                                    inquiries[x].assignedAgent # agentId} |-> inquiries[k]]
         /\ Completes(Call("deactivateAgent", caller, <<agentId>>, None, None))
         /\ UNCHANGED <<frontend, userRoles, properties, userProfiles, now,
                        agentLog, propertyLog, inquiryLog>>

deactivateAgent(caller, agentId) ==
    IF deactivateAgentErr(caller, agentId) # Ok THEN Traps
    ELSE /\ agents' = MapAdd(agents, agentId,
                        [id |-> agentId, name |-> agents[agentId].name,
                         contactInfo |-> agents[agentId].contactInfo,
                         role |-> agents[agentId].role, active |-> FALSE,
                         createdAt |-> agents[agentId].createdAt, updatedAt |-> now])
         /\ Completes(Call("deactivateAgent", caller, <<agentId>>, None, None))
         /\ UNCHANGED <<frontend, userRoles, properties, inquiries, userProfiles, now,
                        agentLog, propertyLog, inquiryLog>>

getAgentErr(caller, agentId) ==
    IF ~HasPermission(caller, "user") THEN Unauthorized
    ELSE IF ~hasAgentRole(caller) THEN Unauthorized
    ELSE IF agentId \notin DOMAIN agents THEN NotFound
    ELSE Ok

getAllAgentsErr(caller) ==
    IF ~HasPermission(caller, "user") THEN Unauthorized
    ELSE IF ~hasAgentRole(caller) THEN Unauthorized
    ELSE Ok

getAllAgentsRet == SortByCreatedAt(MapValues(agents, "principal"))

(* ------------------------- property management ------------------------- *)
\* city # "." # suburb # "." # area # "." # roadName # "." # price # "." # Time.now()
PropertyId(location, price, time) ==
    <<location.city, location.suburb, location.area, location.roadName, price, time>>

addPropertyErr(caller) ==
    IF ~HasPermission(caller, "user") THEN Unauthorized
    ELSE IF ~canManageProperties(caller) THEN Unauthorized
    ELSE Ok

\* a listing that stores the coordinates the wrong way round
addPropertySwappingCoordinates(caller, title, description, location, coordinates, price, category, propertyType, configuration, furnishing, images) ==
    LET propertyId == PropertyId(location, price, now)
        property == [id |-> propertyId, title |-> title, description |-> description,
                     location |-> location,
                     coordinates |-> [lat |-> coordinates.lng, lng |-> coordinates.lat],
                     price |-> price, category |-> category,
                     propertyType |-> propertyType, configuration |-> configuration,
                     furnishing |-> furnishing, status |-> "available",
                     listedBy |-> caller, createdAt |-> now, updatedAt |-> now,
                     images |-> images]
    IN
    IF addPropertyErr(caller) # Ok THEN Traps
    ELSE /\ Cardinality(DOMAIN properties \cup {propertyId}) <= MaxProperties
         /\ properties' = MapAdd(properties, propertyId, property)
         /\ propertyLog' = Logged(propertyLog, propertyId)
         /\ Completes(Call("addProperty", caller, propertyId, None, propertyId))
         /\ UNCHANGED <<frontend, userRoles, agents, inquiries, userProfiles, now,
                        agentLog, inquiryLog>>

addProperty(caller, title, description, location, coordinates, price, category, propertyType, configuration, furnishing, images) ==
    LET propertyId == PropertyId(location, price, now)
        property == [id |-> propertyId, title |-> title, description |-> description,
                     location |-> location, coordinates |-> coordinates,
                     price |-> price, category |-> category,
                     propertyType |-> propertyType, configuration |-> configuration,
                     furnishing |-> furnishing, status |-> "available",
                     listedBy |-> caller, createdAt |-> now, updatedAt |-> now,
                     images |-> images]
    IN
    IF addPropertyErr(caller) # Ok THEN Traps
    ELSE /\ Cardinality(DOMAIN properties \cup {propertyId}) <= MaxProperties
         /\ properties' = MapAdd(properties, propertyId, property)
         /\ propertyLog' = Logged(propertyLog, propertyId)
         /\ Completes(Call("addProperty", caller, propertyId, None, propertyId))
         /\ UNCHANGED <<frontend, userRoles, agents, inquiries, userProfiles, now,
                        agentLog, inquiryLog>>

\* an update without the owner-or-administrator check
updatePropertyErrAnyOwner(caller, propertyId) ==
    IF ~HasPermission(caller, "user") THEN Unauthorized
    ELSE IF propertyId \notin DOMAIN properties THEN NotFound
    ELSE IF ~canManageProperties(caller) THEN Unauthorized
    ELSE Ok

updatePropertyErr(caller, propertyId) ==
    IF ~HasPermission(caller, "user") THEN Unauthorized
    ELSE IF propertyId \notin DOMAIN properties THEN NotFound
    ELSE IF ~canManageProperties(caller) THEN Unauthorized
    ELSE IF properties[propertyId].listedBy # caller /\ ~IsAdmin(caller)
         THEN Unauthorized
    ELSE Ok

\* an update that makes the caller the lister
updatePropertyRelisting(caller, propertyId, title, description, location, coordinates, price, category, propertyType, configuration, furnishing, status, images) ==
    IF updatePropertyErr(caller, propertyId) # Ok THEN Traps
    ELSE /\ properties' = MapAdd(properties, propertyId,
                [id |-> propertyId, title |-> title, description |-> description,
                 location |-> location, coordinates |-> coordinates, price |-> price,
                 category |-> category, propertyType |-> propertyType,
                 configuration |-> configuration, furnishing |-> furnishing,
                 status |-> status, listedBy |-> caller,
                 createdAt |-> properties[propertyId].createdAt, updatedAt |-> now,
                 images |-> images])
         /\ Completes(Call("updateProperty", caller, propertyId, None, None))
         /\ UNCHANGED <<frontend, userRoles, agents, inquiries, userProfiles, now,
                        agentLog, propertyLog, inquiryLog>>

updateProperty(caller, propertyId, title, description, location, coordinates, price, category, propertyType, configuration, furnishing, status, images) ==
    IF updatePropertyErr(caller, propertyId) # Ok THEN Traps
    ELSE /\ properties' = MapAdd(properties, propertyId,
                [id |-> propertyId, title |-> title, description |-> description,
                 location |-> location, coordinates |-> coordinates, price |-> price,
                 category |-> category, propertyType |-> propertyType,
                 configuration |-> configuration, furnishing |-> furnishing,
                 status |-> status, listedBy |-> properties[propertyId].listedBy,
                 createdAt |-> properties[propertyId].createdAt, updatedAt |-> now,
                 images |-> images])
         /\ Completes(Call("updateProperty", caller, propertyId, None, None))
         /\ UNCHANGED <<frontend, userRoles, agents, inquiries, userProfiles, now,
                        agentLog, propertyLog, inquiryLog>>

AllProperties == MapValues(properties, "property")

viewPropertiesErr(caller) ==
    IF ~HasPermission(caller, "user") THEN Unauthorized
    ELSE IF ~canViewProperties(caller) THEN Unauthorized
    ELSE Ok

getPropertyErr(caller, propertyId) ==
    IF viewPropertiesErr(caller) # Ok THEN Unauthorized
    ELSE IF propertyId \notin DOMAIN properties THEN NotFound
    ELSE Ok

getAllPropertiesRet == SortByCreatedAt(AllProperties)

getPropertiesByCategoryRet(category) ==
    SortByCreatedAt(SelectSeq(AllProperties, LAMBDA p : p.category = category))

getPropertiesByPropertyTypeRet(propertyType) ==
    SortByCreatedAt(SelectSeq(AllProperties,
                                LAMBDA p : p.propertyType = propertyType))

getPropertiesByCategoryAndTypeRet(category, propertyType) ==
    SortByCreatedAt(SelectSeq(AllProperties,
        LAMBDA p : p.category = category /\ p.propertyType = propertyType))

filterPropertiesByConfigurationRet(configuration) ==
    SelectSeq(AllProperties, LAMBDA p : p.configuration = configuration)

filterPropertiesByCategoryAndConfigRet(category, configuration) ==
    SelectSeq(AllProperties,
        LAMBDA p : p.category = category /\ p.configuration = configuration)

getPropertyRet(propertyId) == properties[propertyId]

\* an optional argument ?T: null is None, ?v is Some(v)
Some(v) == <<v>>

\* a radius test that leaves the rim out
WithinRadiusStrict(p, lat, lng, radius) ==
    LET dLat == lat - p.coordinates.lat
        dLng == lng - p.coordinates.lng
    IN (dLat * dLat + dLng * dLng) < (radius * radius)

\* (dLat * dLat + dLng * dLng) <= (radius * radius); the Float coordinates
\* are modelled by integers
WithinRadius(p, lat, lng, radius) ==
    LET dLat == lat - p.coordinates.lat
        dLng == lng - p.coordinates.lng
    IN (dLat * dLat + dLng * dLng) <= (radius * radius)

\* switch (minPrice, maxPrice) of the price filters
PriceInRange(p, minPrice, maxPrice) ==
    CASE minPrice = None /\ maxPrice = None -> TRUE
      [] minPrice = None /\ maxPrice # None -> p.price <= maxPrice[1]
      [] minPrice # None /\ maxPrice = None -> p.price >= minPrice[1]
      [] OTHER -> p.price >= minPrice[1] /\ p.price <= maxPrice[1]

\* the filter function of searchAndFilterProperties
SearchMatch(p, criteria) ==
    LET cityMatch == IF criteria.city = None THEN TRUE
                     ELSE p.location.city = criteria.city[1]
        suburbMatch == IF criteria.suburb = None THEN TRUE
                       ELSE p.location.suburb = criteria.suburb[1]
        areaMatch == IF criteria.area = None THEN TRUE
                     ELSE p.location.area = criteria.area[1]
        roadNameMatch == IF criteria.roadName = None THEN TRUE
                         ELSE p.location.roadName = criteria.roadName[1]
        categoryMatch == IF criteria.category = None THEN TRUE
                         ELSE p.category = criteria.category[1]
        propertyTypeMatch == IF criteria.propertyType = None THEN TRUE
                             ELSE p.propertyType = criteria.propertyType[1]
        configurationMatch == IF criteria.configuration = None THEN TRUE
                              ELSE p.configuration = criteria.configuration[1]
        furnishingMatch == IF criteria.furnishing = None THEN TRUE
                           ELSE p.furnishing = criteria.furnishing[1]
        priceMatch == PriceInRange(p, criteria.minPrice, criteria.maxPrice)
        statusMatch == IF criteria.status = None THEN TRUE
                       ELSE p.status = criteria.status[1]
        radiusMatch ==
            IF criteria.lat = None \/ criteria.lng = None \/ criteria.radius = None
            THEN TRUE
            ELSE WithinRadius(p, criteria.lat[1], criteria.lng[1], criteria.radius[1])
    IN cityMatch /\ suburbMatch /\ areaMatch /\ roadNameMatch /\ categoryMatch
       /\ propertyTypeMatch /\ configurationMatch /\ furnishingMatch /\ priceMatch
       /\ statusMatch /\ radiusMatch

searchAndFilterPropertiesRet(criteria) ==
    SelectSeq(AllProperties, LAMBDA p : SearchMatch(p, criteria))

\* a dimension filter that matches a location by its city alone
DimensionMatchByCity(dimension, p, v) ==
    CASE dimension = "locations" -> p.location.city = v.city
      [] dimension = "categories" -> p.category = v
      [] dimension = "propertyTypes" -> p.propertyType = v
      [] dimension = "configurations" -> p.configuration = v
      [] dimension = "furnishings" -> p.furnishing = v
      [] dimension = "priceRanges" -> PriceInRange(p, v[1], v[2])
      [] dimension = "statuses" -> p.status = v
      [] OTHER -> WithinRadius(p, v.lat, v.lng, v.radius)

\* the filter function of one dimension of advancedFilterProperties, for one
\* value of that dimension
DimensionMatch(dimension, p, v) ==
    CASE dimension = "locations" ->
            /\ p.location.city = v.city /\ p.location.suburb = v.suburb
            /\ p.location.area = v.area /\ p.location.roadName = v.roadName
      [] dimension = "categories" -> p.category = v
      [] dimension = "propertyTypes" -> p.propertyType = v
      [] dimension = "configurations" -> p.configuration = v
      [] dimension = "furnishings" -> p.furnishing = v
      [] dimension = "priceRanges" -> PriceInRange(p, v[1], v[2])
      [] dimension = "statuses" -> p.status = v
      [] OTHER -> WithinRadius(p, v.lat, v.lng, v.radius)

\* for (v in values) { combined := combined.concat(propertiesArray.filter(...)) }
RECURSIVE Combined(_, _)
Combined(dimension, values) ==
    IF values = <<>> THEN <<>>
    ELSE SelectSeq(AllProperties, LAMBDA p : DimensionMatch(dimension, p, Head(values)))
         \o Combined(dimension, Tail(values))

\* locationFiltered, categoryFiltered, ...: an empty dimension passes all
DimensionFiltered(dimension, values) ==
    IF Len(values) > 0 THEN Combined(dimension, values) ELSE AllProperties

\* an intersection that walks the second array instead of the stored properties
intersectPropertiesOfSecond(array1, array2) ==
    LET set1 == {array1[i].id : i \in 1 .. Len(array1)}
    IN SelectSeq(array2, LAMBDA property : property.id \in set1)

\* the ids both arrays hold, then the stored properties with these ids in the
\* order of propertiesArray
intersectProperties(array1, array2) ==
    LET set1 == {array1[i].id : i \in 1 .. Len(array1)}
        set2 == {array2[i].id : i \in 1 .. Len(array2)}
        intersectionIds == {id \in set1 : id \in set2}
    IN SelectSeq(AllProperties, LAMBDA property : property.id \in intersectionIds)

advancedFilterPropertiesRet(advancedFilters) ==
    LET locationFiltered == DimensionFiltered("locations", advancedFilters.locations)
        categoryFiltered == DimensionFiltered("categories", advancedFilters.categories)
        propertyTypeFiltered ==
            DimensionFiltered("propertyTypes", advancedFilters.propertyTypes)
        configurationFiltered ==
            DimensionFiltered("configurations", advancedFilters.configurations)
        furnishingFiltered ==
            DimensionFiltered("furnishings", advancedFilters.furnishings)
        priceFiltered == DimensionFiltered("priceRanges", advancedFilters.priceRanges)
        statusFiltered == DimensionFiltered("statuses", advancedFilters.statuses)
        coordinatesFiltered ==
            DimensionFiltered("coordinateFilters", advancedFilters.coordinateFilters)
    IN intersectProperties(
         intersectProperties(
           intersectProperties(
             intersectProperties(
               intersectProperties(
                 intersectProperties(
                   intersectProperties(locationFiltered, categoryFiltered),
                   propertyTypeFiltered),
                 configurationFiltered),
               furnishingFiltered),
             priceFiltered),
           statusFiltered),
         coordinatesFiltered)

\* Set.fromArray(...).toArray(): each value once, ascending
RECURSIVE SetToArray(_)
SetToArray(S) ==
    IF S = {} THEN <<>>
    ELSE LET m == CHOOSE x \in S : \A y \in S : x <= y
         IN <<m>> \o SetToArray(S \ {m})

getAllCitiesRet == SetToArray({properties[k].location.city : k \in DOMAIN properties})

getSuburbsForCityRet(city) ==
    SetToArray({properties[k].location.suburb :
                   k \in {x \in DOMAIN properties : properties[x].location.city = city}})

getAreasForSuburbRet(city, suburb) ==
    SetToArray({properties[k].location.area :
                   k \in {x \in DOMAIN properties :
                             /\ properties[x].location.city = city
                             /\ properties[x].location.suburb = suburb}})

(* -------------------------- inquiry management ------------------------- *)
\* propertyId # "." # customerName # "." # Time.now()
InquiryId(propertyId, customerName, time) == <<propertyId, customerName, time>>

addInquiryErr(caller, propertyId, assignedAgent) ==
    IF ~HasPermission(caller, "user") THEN Unauthorized
    ELSE IF ~canManageInquiries(caller) THEN Unauthorized
    ELSE IF propertyId \notin DOMAIN properties THEN NotFound
    ELSE IF ~isValidActiveAgent(assignedAgent) THEN InvalidReference
    ELSE IF ~canAssignToOtherAgents(caller) /\ assignedAgent # caller THEN Unauthorized
    ELSE Ok

addInquiry(caller, propertyId, customerName, contactInfo, source, assignedAgent, notes) ==
    LET inquiryId == InquiryId(propertyId, customerName, now)
        inquiry == [id |-> inquiryId, propertyId |-> propertyId,
                    customerName |-> customerName, contactInfo |-> contactInfo,
                    source |-> source, status |-> "new",
                    assignedAgent |-> assignedAgent, notes |-> notes,
                    createdAt |-> now, updatedAt |-> now]
    IN
    IF addInquiryErr(caller, propertyId, assignedAgent) # Ok THEN Traps
    ELSE /\ Cardinality(DOMAIN inquiries \cup {inquiryId}) <= MaxInquiries
         /\ inquiries' = MapAdd(inquiries, inquiryId, inquiry)
         /\ inquiryLog' = Logged(inquiryLog, inquiryId)
         /\ Completes(Call("addInquiry", caller, inquiryId, <<assignedAgent>>, inquiryId))
         /\ UNCHANGED <<frontend, userRoles, agents, properties, userProfiles, now,
                        agentLog, propertyLog>>

updateInquiryErr(caller, inquiryId, assignedAgent) ==
    IF ~HasPermission(caller, "user") THEN Unauthorized
    ELSE IF inquiryId \notin DOMAIN inquiries THEN NotFound
    ELSE IF ~canManageInquiries(caller) THEN Unauthorized
    ELSE IF inquiries[inquiryId].assignedAgent # caller /\ ~canManageAllInquiries(caller)
         THEN Unauthorized
    ELSE IF ~isValidActiveAgent(assignedAgent) THEN InvalidReference
    ELSE IF ~canAssignToOtherAgents(caller) /\ assignedAgent # caller THEN Unauthorized
    ELSE Ok

\* an update that stores the new notes before it turns down the assignee
updateInquiryNotingFirst(caller, inquiryId, customerName, contactInfo, source, status, assignedAgent, notes) ==
    IF updateInquiryErr(caller, inquiryId, assignedAgent) = InvalidReference
    THEN /\ inquiries' = [inquiries EXCEPT ![inquiryId].notes = notes + 1]
         /\ UNCHANGED <<frontend, userRoles, agents, properties, userProfiles, now, last,
                        agentLog, propertyLog, inquiryLog, budget>>
    ELSE IF updateInquiryErr(caller, inquiryId, assignedAgent) # Ok THEN Traps
    ELSE /\ inquiries' = MapAdd(inquiries, inquiryId,
                [id |-> inquiryId, propertyId |-> inquiries[inquiryId].propertyId,
                 customerName |-> customerName, contactInfo |-> contactInfo,
                 source |-> source, status |-> status,
                 assignedAgent |-> assignedAgent, notes |-> notes,
                 createdAt |-> inquiries[inquiryId].createdAt, updatedAt |-> now])
         /\ Completes(Call("updateInquiry", caller, inquiryId, <<assignedAgent>>, None))
         /\ UNCHANGED <<frontend, userRoles, agents, properties, userProfiles, now,
                        agentLog, propertyLog, inquiryLog>>

updateInquiry(caller, inquiryId, customerName, contactInfo, source, status, assignedAgent, notes) ==
    IF updateInquiryErr(caller, inquiryId, assignedAgent) # Ok THEN Traps
    ELSE /\ inquiries' = MapAdd(inquiries, inquiryId,
                [id |-> inquiryId, propertyId |-> inquiries[inquiryId].propertyId,
                 customerName |-> customerName, contactInfo |-> contactInfo,
                 source |-> source, status |-> status,
                 assignedAgent |-> assignedAgent, notes |-> notes,
                 createdAt |-> inquiries[inquiryId].createdAt, updatedAt |-> now])
         /\ Completes(Call("updateInquiry", caller, inquiryId, <<assignedAgent>>, None))
         /\ UNCHANGED <<frontend, userRoles, agents, properties, userProfiles, now,
                        agentLog, propertyLog, inquiryLog>>

AllInquiries == MapValues(inquiries, "inquiry")

getInquiryErr(caller, inquiryId) ==
    IF ~HasPermission(caller, "user") THEN Unauthorized
    ELSE IF ~canManageInquiries(caller) THEN Unauthorized
    ELSE IF inquiryId \notin DOMAIN inquiries THEN NotFound
    ELSE IF inquiries[inquiryId].assignedAgent # caller /\ ~canManageAllInquiries(caller)
         THEN Unauthorized
    ELSE Ok

getAllInquiriesErr(caller) ==
    IF ~HasPermission(caller, "user") THEN Unauthorized
    ELSE IF ~canManageInquiries(caller) THEN Unauthorized
    ELSE Ok

\* a listing that hands every caller all inquiries
getAllInquiriesRetUnscoped(caller) == SortByCreatedAt(AllInquiries)

getAllInquiriesRet(caller) ==
    IF canManageAllInquiries(caller)
    THEN SortByCreatedAt(AllInquiries)
    ELSE SortByCreatedAt(SelectSeq(AllInquiries,
                                     LAMBDA i : i.assignedAgent = caller))

getInquiriesByAgentErr(caller, agentId) ==
    IF ~HasPermission(caller, "user") THEN Unauthorized
    ELSE IF ~canManageInquiries(caller) THEN Unauthorized
    ELSE IF agentId # caller /\ ~canManageAllInquiries(caller) THEN Unauthorized
    ELSE Ok

getInquiriesByAgentRet(agentId) ==
    SortByCreatedAt(SelectSeq(AllInquiries, LAMBDA i : i.assignedAgent = agentId))

getInquiriesByPropertyErr(caller) ==
    IF ~HasPermission(caller, "user") THEN Unauthorized
    ELSE IF ~canManageInquiries(caller) THEN Unauthorized
    ELSE Ok

getInquiriesByPropertyRet(caller, propertyId) ==
    LET propertyInquiries ==
            SelectSeq(AllInquiries, LAMBDA i : i.propertyId = propertyId)
    IN IF canManageAllInquiries(caller)
       THEN SortByCreatedAt(propertyInquiries)
       ELSE SortByCreatedAt(SelectSeq(propertyInquiries,
                                        LAMBDA i : i.assignedAgent = caller))

(* ------------------------------- analytics ----------------------------- *)
analyticsErr(caller) ==
    IF ~HasPermission(caller, "user") THEN Unauthorized
    ELSE IF ~canAccessAnalytics(caller) THEN Unauthorized
    ELSE Ok

\* an aggregate over every stored property, whoever asks
relevantPropertiesUnscoped(caller) == AllProperties

\* administrators aggregate over all properties, others over their own
relevantProperties(caller) ==
    IF IsAdmin(caller) THEN AllProperties
    ELSE SelectSeq(AllProperties, LAMBDA p : p.listedBy = caller)

CountCategory(rel, v) == Len(SelectSeq(rel, LAMBDA p : p.category = v))
CountPropertyType(rel, v) == Len(SelectSeq(rel, LAMBDA p : p.propertyType = v))
CountConfiguration(rel, v) == Len(SelectSeq(rel, LAMBDA p : p.configuration = v))
CountFurnishing(rel, v) == Len(SelectSeq(rel, LAMBDA p : p.furnishing = v))

\* var sum : Nat = 0; for (p in relevantProperties.vals()) { sum += p.price }
RECURSIVE SumPrices(_)
SumPrices(rel) == IF rel = <<>> THEN 0 ELSE Head(rel).price + SumPrices(Tail(rel))

\* an average that rounds up
avgPriceRoundedUp(rel) ==
    IF Len(rel) > 0 THEN Some((SumPrices(rel) + Len(rel) - 1) \div Len(rel)) ELSE None

avgPrice(rel) ==
    IF Len(rel) > 0 THEN Some(SumPrices(rel) \div Len(rel)) ELSE None

\* minPrice and maxPrice are both the price of relevantProperties[0]
priceRange(rel) ==
    [minPrice |-> IF Len(rel) > 0 THEN Some(rel[1].price) ELSE None,
     maxPrice |-> IF Len(rel) > 0 THEN Some(rel[1].price) ELSE None]

configurationCounts(rel) == [v \in Configurations |-> CountConfiguration(rel, v)]
furnishingCounts(rel) == [v \in Furnishings |-> CountFurnishing(rel, v)]
categoryCounts(rel) == [v \in Categories |-> CountCategory(rel, v)]
propertyTypeCounts(rel) == [v \in PropertyTypes |-> CountPropertyType(rel, v)]

getConfigurationDistributionRet(caller) ==
    <<[region |-> "Mumbai", regionType |-> "city",
       counts |-> configurationCounts(relevantProperties(caller))]>>

getFurnishingDistributionRet(caller) ==
    <<[region |-> "Mumbai", regionType |-> "city",
       counts |-> furnishingCounts(relevantProperties(caller))]>>

getCombinedAnalyticsRet(caller) ==
    LET rel == relevantProperties(caller)
        totalCount == Len(rel)
    IN [regionalDistribution |->
            <<[region |-> "Mumbai", regionType |-> "city",
               propertyCount |-> totalCount,
               categoryDistribution |-> categoryCounts(rel),
               propertyTypeDistribution |-> propertyTypeCounts(rel),
               configurationDistribution |-> configurationCounts(rel),
               furnishingDistribution |-> furnishingCounts(rel),
               averagePrice |-> avgPrice(rel),
               priceRange |-> priceRange(rel)]>>,
        propertyDensity |->
            <<[region |-> "Mumbai", regionType |-> "city",
               propertyCount |-> totalCount]>>,
        pricingHeatmap |->
            <<[region |-> "Mumbai", regionType |-> "city",
               averagePrice |-> avgPrice(rel), priceRange |-> priceRange(rel)]>>,
        categoryDistribution |->
            <<[region |-> "Mumbai", regionType |-> "city",
               counts |-> categoryCounts(rel)]>>,
        propertyTypeDistribution |->
            <<[region |-> "Mumbai", regionType |-> "city",
               counts |-> propertyTypeCounts(rel)]>>,
        configurationDistribution |->
            <<[region |-> "Mumbai", regionType |-> "city",
               counts |-> configurationCounts(rel)]>>,
        furnishingDistribution |->
            <<[region |-> "Mumbai", regionType |-> "city",
               counts |-> furnishingCounts(rel)]>>]

(* ------------------------------ data reset ----------------------------- *)
\* a reset that asks for base access only
resetToFreshDraftErrBaseAccess(caller) ==
    IF ~HasPermission(caller, "user") THEN Unauthorized ELSE Ok

resetToFreshDraftErr(caller) ==
    IF ~HasPermission(caller, "admin") THEN Unauthorized ELSE Ok

\* a reset that leaves the inquiries behind
resetToFreshDraftKeepingInquiries(caller) ==
    IF ~HasPermission(caller, "admin") THEN Traps
    ELSE /\ agents' = EmptyMap
         /\ properties' = EmptyMap
         /\ userProfiles' = EmptyMap
         /\ agentLog' = <<>>
         /\ propertyLog' = <<>>
         /\ Completes(Call("resetToFreshDraft", caller, None, None, None))
         /\ UNCHANGED <<frontend, userRoles, now, inquiries, inquiryLog>>

\* a reset that forgets the fourth collection
resetToFreshDraftKeepingProfiles(caller) ==
    IF ~HasPermission(caller, "admin") THEN Traps
    ELSE /\ agents' = EmptyMap
         /\ properties' = EmptyMap
         /\ inquiries' = EmptyMap
         /\ agentLog' = <<>>
         /\ propertyLog' = <<>>
         /\ inquiryLog' = <<>>
         /\ Completes(Call("resetToFreshDraft", caller, None, None, None))
         /\ UNCHANGED <<frontend, userRoles, now, userProfiles>>

\* what a reset that passed its check does to the actor
resetApplied(caller) ==
    /\ agents' = EmptyMap
    /\ properties' = EmptyMap
    /\ inquiries' = EmptyMap
    /\ userProfiles' = EmptyMap
    /\ agentLog' = <<>>
    /\ propertyLog' = <<>>
    /\ inquiryLog' = <<>>
    /\ Completes(Call("resetToFreshDraft", caller, None, None, None))
    /\ UNCHANGED <<userRoles, now>>

resetToFreshDraft(caller) ==
    IF resetToFreshDraftErr(caller) # Ok THEN Traps
    ELSE resetApplied(caller) /\ UNCHANGED frontend

(* ------------------------------- queries ------------------------------- *)
\* A query call answers from the state it finds and leaves it as it was. Its
\* answer is the pair of the ...Err and ...Ret operators of the handler.
Query(err) == UNCHANGED vars

getCallerUserProfile(caller) == Query(getCallerUserProfileErr(caller))

getUserProfile(caller, user) == Query(getUserProfileErr(caller, user))

getAgent(caller, agentId) == Query(getAgentErr(caller, agentId))

getAllAgents(caller) == Query(getAllAgentsErr(caller))

getProperty(caller, propertyId) == Query(getPropertyErr(caller, propertyId))

getAllProperties(caller) == Query(viewPropertiesErr(caller))

getPropertiesByCategory(caller, category) == Query(viewPropertiesErr(caller))

getPropertiesByPropertyType(caller, propertyType) == Query(viewPropertiesErr(caller))

getPropertiesByCategoryAndType(caller, category, propertyType) ==
    Query(viewPropertiesErr(caller))

filterPropertiesByConfiguration(caller, configuration) ==
    Query(viewPropertiesErr(caller))

filterPropertiesByCategoryAndConfig(caller, category, configuration) ==
    Query(viewPropertiesErr(caller))

getInquiry(caller, inquiryId) == Query(getInquiryErr(caller, inquiryId))

getAllInquiries(caller) == Query(getAllInquiriesErr(caller))

getInquiriesByAgent(caller, agentId) == Query(getInquiriesByAgentErr(caller, agentId))

getInquiriesByProperty(caller, propertyId) == Query(getInquiriesByPropertyErr(caller))

searchAndFilterProperties(caller, criteria) == Query(viewPropertiesErr(caller))

advancedFilterProperties(caller, advancedFilters) == Query(viewPropertiesErr(caller))

getAllCities(caller) == Query(viewPropertiesErr(caller))

getSuburbsForCity(caller, city) == Query(viewPropertiesErr(caller))

getAreasForSuburb(caller, city, suburb) == Query(viewPropertiesErr(caller))

getConfigurationDistribution(caller) == Query(analyticsErr(caller))

getFurnishingDistribution(caller) == Query(analyticsErr(caller))

getCombinedAnalytics(caller) == Query(analyticsErr(caller))

(* ========================= the browser side ========================== *)
(* ------------------------ the admin reset control ---------------------- *)
\* AdminResetControl with its two hooks. adminData and adminFetching are the
\* data and the fetch state of the isCallerAdmin query, isPending that of the
\* reset mutation; issued counts the actor.resetToFreshDraft() calls sent and
\* outcome tells how the latest one settled.
MaxResets == 2

ControlViewers == {1, 2}
ConfirmationTexts == {"", "RESET", "reset"}

ControlIdle(viewer) ==
    [viewer |-> viewer, adminData |-> "undefined", adminFetching |-> TRUE,
     isDialogOpen |-> FALSE, confirmationText |-> "", isPending |-> FALSE,
     issued |-> 0, outcome |-> "none"]

\* isCallerAdmin(): MixinAuthorization, the Identity Gate's answer for the caller
isCallerAdminRet(caller) == IF IsAdmin(caller) THEN "true" ELSE "false"

\* the query function of useIsCallerAdmin settles: with the actor's answer, or
\* with an error (retry: false), which leaves the data as it was
isCallerAdminSettles ==
    /\ control.adminFetching
    /\ \E answered \in BOOLEAN :
          control' = [control EXCEPT
                        !.adminFetching = FALSE,
                        !.adminData = IF answered THEN isCallerAdminRet(control.viewer)
                                      ELSE @]
    /\ UNCHANGED <<backend, loader, picker>>

isAdminLoading == control.adminData = "undefined" /\ control.adminFetching
isAdmin == control.adminData = "true"

\* if (isAdminLoading || !isAdmin) return null
Rendered == ~(isAdminLoading \/ ~isAdmin)

isConfirmationValid == control.confirmationText = "RESET"
isResetting == control.isPending

\* the Input's onChange; the Input is disabled while resetting
onConfirmationChange(text) ==
    /\ Rendered
    /\ ~isResetting
    /\ control' = [control EXCEPT !.confirmationText = text]
    /\ UNCHANGED <<backend, loader, picker>>

\* onOpenChange of the Dialog and onClick of Cancel
handleDialogClose ==
    /\ Rendered
    /\ control' = IF ~isResetting
                  THEN [control EXCEPT !.isDialogOpen = FALSE, !.confirmationText = ""]
                  ELSE control
    /\ UNCHANGED <<backend, loader, picker>>

\* a reset button that stays enabled while a reset is pending
handleResetWhileResetting ==
    /\ Rendered
    /\ isConfirmationValid
    /\ control.issued < MaxResets
    /\ control' = [control EXCEPT !.isPending = TRUE, !.issued = @ + 1,
                                  !.outcome = "none"]
    /\ UNCHANGED <<backend, loader, picker>>

\* onClick of the reset button (disabled = !isConfirmationValid || isResetting)
\* up to the await: the mutation is started and the call is sent
handleReset ==
    /\ Rendered
    /\ ~(~isConfirmationValid \/ isResetting)
    /\ control.issued < MaxResets
    /\ control' = IF ~isConfirmationValid THEN control
                  ELSE [control EXCEPT !.isPending = TRUE, !.issued = @ + 1,
                                       !.outcome = "none"]
    /\ UNCHANGED <<backend, loader, picker>>

\* the mutation settles. The actor ran resetToFreshDraft for the viewer and
\* answered: onSuccess invalidates the queries (isCallerAdmin is fetched again)
\* and handleReset goes on to close the dialog and clear the text. Or the call
\* was rejected (no actor, a trap of the actor, the transport): onError, and
\* handleReset's catch leaves the dialog and the text alone.
resetMutationSettles ==
    /\ control.isPending
    /\ \/ /\ resetToFreshDraftErr(control.viewer) = Ok
          /\ resetApplied(control.viewer)
          /\ control' = [control EXCEPT !.isPending = FALSE, !.outcome = "success",
                                        !.adminFetching = TRUE,
                                        !.isDialogOpen = FALSE,
                                        !.confirmationText = ""]
       \/ /\ UNCHANGED backend
          /\ control' = [control EXCEPT !.isPending = FALSE, !.outcome = "error"]
    /\ UNCHANGED <<loader, picker>>

(* --------------------------- the map loader ---------------------------- *)
\* The script-loading effect of PropertyMap. pc is where the effect and its
\* attemptLoad stand; attempts counts the attempts started since the page was
\* loaded and waited lists the backoff delays slept, in milliseconds.
MaxReloads == 1
maxRetries == 3

ApiKeys == {"empty", "placeholder", "short", "badchars", "valid"}
LoadErrors == {"script", "maps", "Places", "billing"}

LoaderIdle(apiKey, loaded) ==
    [pc |-> "mount", apiKey |-> apiKey, loaded |-> loaded, listening |-> FALSE,
     attemptNumber |-> 0, isLoading |-> TRUE, error |-> "null",
     errorType |-> "null", retryCount |-> 0, attempts |-> 0, waited |-> <<>>,
     result |-> "none", reloads |-> 0]

validateApiKey(apiKey) ==
    CASE apiKey = "empty" ->
            [valid |-> FALSE, error |-> "not configured", errorType |-> "missing-key"]
      [] apiKey = "placeholder" ->
            [valid |-> FALSE, error |-> "placeholder value", errorType |-> "missing-key"]
      [] apiKey = "short" ->
            [valid |-> FALSE, error |-> "too short", errorType |-> "invalid-key"]
      [] apiKey = "badchars" ->
            [valid |-> FALSE, error |-> "invalid characters", errorType |-> "invalid-key"]
      [] OTHER -> [valid |-> TRUE, error |-> "null", errorType |-> "null"]

\* 2 to the power n
RECURSIVE Pow2(_)
Pow2(n) == IF n = 0 THEN 1 ELSE 2 * Pow2(n - 1)

\* attemptNumber > 0 ? Math.min(1000 * Math.pow(2, attemptNumber - 1), 4000) : 0
backoffDelay(attemptNumber) ==
    IF attemptNumber > 0
    THEN IF 1000 * Pow2(attemptNumber - 1) < 4000
         THEN 1000 * Pow2(attemptNumber - 1) ELSE 4000
    ELSE 0

\* the effect runs: key validation, the already-loaded check, then the
\* handlers are installed and attemptLoad(0) starts loading at once
loadEffect ==
    /\ loader.pc = "mount"
    /\ loader' =
         IF ~validateApiKey(loader.apiKey).valid
         THEN [loader EXCEPT !.pc = "done",
                             !.error = validateApiKey(loader.apiKey).error,
                             !.errorType = validateApiKey(loader.apiKey).errorType,
                             !.isLoading = FALSE]
         ELSE IF loader.loaded
         THEN [loader EXCEPT !.pc = "done", !.isLoading = FALSE]
         ELSE [loader EXCEPT !.pc = "loading", !.listening = TRUE,
                             !.attemptNumber = 0, !.attempts = @ + 1]
    /\ UNCHANGED <<backend, control, picker>>

\* the setTimeout of the backoff fires and the scripts are requested
backoffElapses ==
    /\ loader.pc = "waiting"
    /\ loader' = [loader EXCEPT !.pc = "loading", !.attempts = @ + 1,
                    !.waited = Append(@, backoffDelay(loader.attemptNumber))]
    /\ UNCHANGED <<backend, control, picker>>

\* both scripts loaded and the validation passed
attemptLoadSucceeds ==
    /\ loader.pc = "loading"
    /\ loader' = [loader EXCEPT !.pc = "done", !.result = "loaded",
                                !.isLoading = FALSE, !.error = "null",
                                !.errorType = "null", !.retryCount = 0]
    /\ UNCHANGED <<backend, control, picker>>

\* the error of attemptLoad's catch after the retries are exhausted
exhaustedError(message) ==
    CASE message = "Places" -> [error |-> "Places API", errorType |-> "api-disabled"]
      [] message = "billing" -> [error |-> "billing", errorType |-> "billing"]
      [] OTHER -> [error |-> "after multiple attempts", errorType |-> "load-failed"]

\* a catch that retries once more than maxRetries
attemptLoadFailsOnceMore(message) ==
    /\ loader.pc = "loading"
    /\ loader' =
         IF loader.attemptNumber <= maxRetries
         THEN [loader EXCEPT !.pc = "waiting", !.retryCount = loader.attemptNumber + 1,
                             !.attemptNumber = @ + 1]
         ELSE [loader EXCEPT !.pc = "done", !.result = "failed",
                             !.error = exhaustedError(message).error,
                             !.errorType = exhaustedError(message).errorType,
                             !.isLoading = FALSE, !.retryCount = 0]
    /\ UNCHANGED <<backend, control, picker>>

\* the attempt throws (a script failed to load, google.maps or its places
\* library is missing, the Map constructor threw): retry with backoff, or give up
attemptLoadFails(message) ==
    /\ loader.pc = "loading"
    /\ loader' =
         IF loader.attemptNumber < maxRetries
         THEN [loader EXCEPT !.pc = "waiting", !.retryCount = loader.attemptNumber + 1,
                             !.attemptNumber = @ + 1]
         ELSE [loader EXCEPT !.pc = "done", !.result = "failed",
                             !.error = exhaustedError(message).error,
                             !.errorType = exhaustedError(message).errorType,
                             !.isLoading = FALSE, !.retryCount = 0]
    /\ UNCHANGED <<backend, control, picker>>

\* window.gm_authFailure, called by the Maps script
gm_authFailure ==
    /\ loader.listening
    /\ loader' = [loader EXCEPT !.error = "domain authorization",
                                !.errorType = "domain-restriction",
                                !.isLoading = FALSE]
    /\ UNCHANGED <<backend, control, picker>>

GoogleMapsErrorTypes ==
    {"billing", "api-disabled", "domain-restriction", "invalid-key", "load-failed"}

\* the window 'error' listener, for an event whose message names Google Maps
handleGoogleMapsError(errorType) ==
    /\ loader.listening
    /\ loader' = [loader EXCEPT !.error = errorType, !.errorType = errorType,
                                !.isLoading = FALSE]
    /\ UNCHANGED <<backend, control, picker>>

\* the Retry button of the error view (disabled while retryCount > 0): the
\* scripts are removed and the page is reloaded, which mounts a new loader
handleRetry ==
    /\ loader.error # "null"
    /\ ~(loader.retryCount > 0)
    /\ loader.reloads < MaxReloads
    /\ loader' = [LoaderIdle(loader.apiKey, FALSE) EXCEPT !.reloads = loader.reloads + 1]
    /\ UNCHANGED <<backend, control, picker>>

(* --------------------------- the place picker -------------------------- *)
\* The place_changed listener of the Places Autocomplete in PropertyMap. calls
\* lists the arguments onPlaceSelected was invoked with, dragEnds those of
\* onMarkerDragEnd; place is the latest PlaceResult and changes counts them.
MaxSelections == 2

PickerIdle(hasCallback) ==
    [hasCallback |-> hasCallback, place |-> None, changes |-> 0, calls |-> <<>>,
     dragEnds |-> <<>>, center |-> None, zoom |-> None]

\* address components as the Places service names them
AddressComponents ==
    {[types |-> {"locality", "political"}, long_name |-> "Thane"],
     [types |-> {"sublocality_level_1", "sublocality", "political"},
      long_name |-> "Mulund West"],
     [types |-> {"sublocality_level_2", "sublocality", "political"},
      long_name |-> "Vaishali Nagar"],
     [types |-> {"neighborhood", "political"}, long_name |-> "Nahur"],
     [types |-> {"route"}, long_name |-> "LBS Road"]}

\* the PlaceResults that getPlace() hands the listener
Places ==
    {[geometry |-> g, address_components |-> ac, name |-> n] :
        g \in {None, Some([lat |-> 19, lng |-> 72])},
        ac \in {None} \cup {Some(<<>>)}
               \cup {Some(<<a>>) : a \in AddressComponents}
               \cup {Some(<<a, b>>) : a \in AddressComponents, b \in AddressComponents},
        n \in {None, Some("Nahur Station")}}

\* one turn of the listener's loop over the address components
ListenerComponent(fields, component) ==
    LET types == component.types IN
    IF "locality" \in types THEN [fields EXCEPT !.city = component.long_name]
    ELSE IF "sublocality_level_1" \in types \/ "sublocality" \in types
         THEN [fields EXCEPT !.suburb = component.long_name]
    ELSE IF "sublocality_level_2" \in types
         THEN [fields EXCEPT !.area = component.long_name]
    ELSE IF "neighborhood" \in types
         THEN IF fields.area = "" THEN [fields EXCEPT !.area = component.long_name]
              ELSE fields
    ELSE IF "route" \in types THEN [fields EXCEPT !.roadName = component.long_name]
    ELSE fields

RECURSIVE ListenerComponents(_, _)
ListenerComponents(fields, components) ==
    IF components = <<>> THEN fields
    ELSE ListenerComponents(ListenerComponent(fields, Head(components)),
                            Tail(components))

\* city, suburb, area and roadName as the listener works them out
ListenerFields(place) ==
    LET start == [city |-> "Mulund", suburb |-> "", area |-> "", roadName |-> ""]
    IN IF place.address_components = None THEN start
       ELSE LET looped == ListenerComponents(start, place.address_components[1])
                moved == IF looped.suburb = "" /\ looped.area # ""
                         THEN [looped EXCEPT !.suburb = looped.area, !.area = ""]
                         ELSE looped
            IN IF moved.suburb = "" /\ place.name # None /\ place.name # Some("")
               THEN [moved EXCEPT !.suburb = place.name[1]]
               ELSE moved

\* autocomplete's place_changed listener
place_changed(place) ==
    /\ picker.changes < MaxSelections
    /\ picker' =
         IF place.geometry = None
         THEN [picker EXCEPT !.place = Some(place), !.changes = @ + 1]
         ELSE LET coords == place.geometry[1]
                  fields == ListenerFields(place)
              IN [picker EXCEPT
                    !.place = Some(place), !.changes = @ + 1,
                    !.center = Some(coords), !.zoom = Some(15),
                    !.calls = IF picker.hasCallback
                              THEN Append(@, [city |-> fields.city,
                                              suburb |-> fields.suburb,
                                              area |-> fields.area,
                                              roadName |-> fields.roadName,
                                              coords |-> coords])
                              ELSE @,
                    !.dragEnds = Append(@, coords)]
    /\ UNCHANGED <<backend, control, loader>>

\* extractCoordinates of utils/googlePlaces
extractCoordinates(place) == place.geometry

\* one turn of parsePlaceResult's loop over the address components
ParseComponent(fields, component) ==
    LET types == component.types
        f1 == IF "locality" \in types THEN [fields EXCEPT !.city = component.long_name]
              ELSE IF fields.city = "" /\ "administrative_area_level_2" \in types
                   THEN [fields EXCEPT !.city = component.long_name]
              ELSE fields
        f2 == IF "sublocality_level_1" \in types \/ "sublocality" \in types
              THEN [f1 EXCEPT !.suburb = component.long_name]
              ELSE IF f1.suburb = "" /\ "neighborhood" \in types
                   THEN [f1 EXCEPT !.suburb = component.long_name]
              ELSE f1
        f3 == IF "sublocality_level_2" \in types
              THEN [f2 EXCEPT !.area = component.long_name]
              ELSE IF f2.area = "" /\ "sublocality_level_3" \in types
                   THEN [f2 EXCEPT !.area = component.long_name]
              ELSE f2
    IN IF "route" \in types THEN [f3 EXCEPT !.roadName = component.long_name]
       ELSE IF f3.roadName = "" /\ "street_address" \in types
            THEN [f3 EXCEPT !.roadName = component.long_name]
       ELSE f3

RECURSIVE ParseComponents(_, _)
ParseComponents(fields, components) ==
    IF components = <<>> THEN fields
    ELSE ParseComponents(ParseComponent(fields, Head(components)), Tail(components))

\* parsePlaceResult of utils/googlePlaces: null without coordinates
parsePlaceResult(place) ==
    LET coords == extractCoordinates(place)
        addressComponents == IF place.address_components = None THEN <<>>
                             ELSE place.address_components[1]
        looped == ParseComponents([city |-> "", suburb |-> "", area |-> "",
                                   roadName |-> ""], addressComponents)
        named == IF looped.roadName = "" /\ place.name # None /\ place.name # Some("")
                 THEN [looped EXCEPT !.roadName = place.name[1]]
                 ELSE looped
    IN IF coords = None THEN None
       ELSE Some([city |-> named.city, suburb |-> named.suburb, area |-> named.area,
                  roadName |-> named.roadName, coords |-> coords[1]])

\* the browser side before anything happened on it
FrontendIdle ==
    /\ control = ControlIdle(1)
    /\ loader = LoaderIdle("valid", FALSE)
    /\ picker = PickerIdle(TRUE)

(* ------------------------------- the actor ----------------------------- *)
\* Time.now() moves between calls, never within one
Tick ==
    /\ now < MaxTime
    /\ now' = now + 1
    /\ budget > 0
    /\ budget' = budget - 1
    /\ UNCHANGED <<frontend, userRoles, agents, properties, inquiries, userProfiles, last,
                   agentLog, propertyLog, inquiryLog>>

\* keys no collection ever holds, for calls that name an absent entity
AbsentPropertyId == <<0, 0, 0, 0, 0, 0>>
AbsentInquiryId == <<AbsentPropertyId, 0, 0>>
PropertyIdArgs == DOMAIN properties \cup {AbsentPropertyId}
InquiryIdArgs == DOMAIN inquiries \cup {AbsentInquiryId}
InProfiles == {[name |-> n, contactInfo |-> c] : n \in Texts, c \in Texts}

\* a SearchCriteria with every field absent, and an AdvancedFilter with every
\* dimension empty
NoCriteria ==
    [city |-> None, suburb |-> None, area |-> None, roadName |-> None,
     category |-> None, propertyType |-> None, configuration |-> None,
     furnishing |-> None, minPrice |-> None, maxPrice |-> None, status |-> None,
     lat |-> None, lng |-> None, radius |-> None]

NoFilter ==
    [locations |-> <<>>, categories |-> <<>>, propertyTypes |-> <<>>,
     configurations |-> <<>>, furnishings |-> <<>>, priceRanges |-> <<>>,
     statuses |-> <<>>, coordinateFilters |-> <<>>]

Start(steps) ==
    /\ userRoles = [p \in Principals |-> IF p = 1 THEN "admin" ELSE "guest"]
    /\ agents = EmptyMap
    /\ properties = EmptyMap
    /\ inquiries = EmptyMap
    /\ userProfiles = EmptyMap
    /\ now = 1
    /\ last = [op |-> "init", caller |-> 0, target |-> None, assignee |-> None,
               ret |-> None, before |-> <<0, 0, 0, 0>>, step |-> steps + 1]
    /\ agentLog = <<>>
    /\ propertyLog = <<>>
    /\ inquiryLog = <<>>
    /\ budget = steps

Init == Start(MaxSteps) /\ FrontendIdle

Next ==
    \/ Tick
    \/ \E c \in Principals, u \in Principals, r \in UserRoles :
          assignCallerUserRole(c, u, r)
    \/ \E c \in Principals, pr \in InProfiles : saveCallerUserProfile(c, pr)
    \/ \E c \in Principals : getCallerUserProfile(c)
    \/ \E c \in Principals, u \in Principals : getUserProfile(c, u)
    \/ \E c \in Principals, a \in Principals, n \in Texts, ci \in Texts,
          r \in AgentRoles : addAgent(c, a, n, ci, r)
    \/ \E c \in Principals, a \in Principals, n \in Texts, ci \in Texts,
          r \in AgentRoles : updateAgent(c, a, n, ci, r)
    \/ \E c \in Principals, a \in Principals : deactivateAgent(c, a)
    \/ \E c \in Principals, a \in Principals : getAgent(c, a)
    \/ \E c \in Principals : getAllAgents(c)
    \/ \E c \in Principals, t \in Texts, l \in InLocations, co \in InCoordinates,
          p \in InPrices, cat \in InCategories, pt \in InPropertyTypes,
          cf \in InConfigurations, f \in InFurnishings, im \in InImages :
          addProperty(c, t, t, l, co, p, cat, pt, cf, f, im)
    \/ \E c \in Principals, id \in PropertyIdArgs, t \in Texts, l \in InLocations,
          co \in InCoordinates, p \in InPrices, cat \in InCategories,
          pt \in InPropertyTypes, cf \in InConfigurations, f \in InFurnishings,
          st \in InPropertyStatuses, im \in InImages :
          updateProperty(c, id, t, t, l, co, p, cat, pt, cf, f, st, im)
    \/ \E c \in Principals, id \in PropertyIdArgs : getProperty(c, id)
    \/ \E c \in Principals : getAllProperties(c)
    \/ \E c \in Principals, cat \in InCategories : getPropertiesByCategory(c, cat)
    \/ \E c \in Principals, pt \in InPropertyTypes : getPropertiesByPropertyType(c, pt)
    \/ \E c \in Principals, cat \in InCategories, pt \in InPropertyTypes :
          getPropertiesByCategoryAndType(c, cat, pt)
    \/ \E c \in Principals, cf \in InConfigurations :
          filterPropertiesByConfiguration(c, cf)
    \/ \E c \in Principals, cat \in InCategories, cf \in InConfigurations :
          filterPropertiesByCategoryAndConfig(c, cat, cf)
    \/ \E c \in Principals, pid \in PropertyIdArgs, n \in Texts, ci \in Texts,
          s \in InSources, a \in Principals :
          addInquiry(c, pid, n, ci, s, a, n)
    \/ \E c \in Principals, id \in InquiryIdArgs, n \in Texts, ci \in Texts,
          s \in InSources, st \in InInquiryStatuses, a \in Principals :
          updateInquiry(c, id, n, ci, s, st, a, n)
    \/ \E c \in Principals, id \in InquiryIdArgs : getInquiry(c, id)
    \/ \E c \in Principals : getAllInquiries(c)
    \/ \E c \in Principals, a \in Principals : getInquiriesByAgent(c, a)
    \/ \E c \in Principals, pid \in PropertyIdArgs : getInquiriesByProperty(c, pid)
    \/ \E c \in Principals : searchAndFilterProperties(c, NoCriteria)
    \/ \E c \in Principals : advancedFilterProperties(c, NoFilter)
    \/ \E c \in Principals : getAllCities(c)
    \/ \E c \in Principals, t \in Texts : getSuburbsForCity(c, t)
    \/ \E c \in Principals, t \in Texts : getAreasForSuburb(c, t, t)
    \/ \E c \in Principals : getConfigurationDistribution(c)
    \/ \E c \in Principals : getFurnishingDistribution(c)
    \/ \E c \in Principals : getCombinedAnalytics(c)
    \/ \E c \in Principals : resetToFreshDraft(c)

Spec == Init /\ [][Next]_vars

(* ----------------------- the inquiry desk workload --------------------- *)
\* The same actor under a narrower stream of calls that runs longer: the
\* administrator registers agents 2 and 3 and lists properties at one
\* location, and anyone files, reassigns and reads inquiries.
DeskLocation == [city |-> 1, suburb |-> 1, area |-> 1, roadName |-> 1]
DeskNames == {1, 2}

InitDesk == Start(MaxDeskSteps) /\ FrontendIdle

NextDesk ==
    \/ Tick
    \/ \E c \in Principals, a \in {2, 3}, r \in AgentRoles : addAgent(c, a, 1, 1, r)
    \/ \E c \in Principals :
          addProperty(c, 1, 1, DeskLocation, [lat |-> 0, lng |-> 0], 5, "resale",
                      "residential", "bhk2", "furnished", <<>>)
    \/ \E c \in Principals, pid \in PropertyIdArgs, n \in DeskNames, a \in Principals :
          addInquiry(c, pid, n, 1, "website", a, 1)
    \/ \E c \in Principals, id \in InquiryIdArgs, a \in Principals :
          updateInquiry(c, id, id[2], 1, "website", "closed", a, 1)
    \/ \E c \in Principals, id \in InquiryIdArgs : getInquiry(c, id)
    \/ \E c \in Principals : getAllInquiries(c)
    \/ \E c \in Principals, a \in Principals : getInquiriesByAgent(c, a)
    \/ \E c \in Principals, pid \in PropertyIdArgs : getInquiriesByProperty(c, pid)

SpecDesk == InitDesk /\ [][NextDesk]_vars

(* ------------------------- the listing workload ------------------------ *)
\* The same actor under the calls of the listing side: the administrator
\* registers agents, properties of different place, price, category and
\* road are listed and sold, and the listings are searched and aggregated.
ListingCallers == {1, 2}
ListingRoles == {"agent", "assistant"}

\* what is listed: place, position, price and category
ListingInputs ==
    {[location |-> [city |-> 1, suburb |-> 1, area |-> 1, roadName |-> 2],
      coordinates |-> [lat |-> 0, lng |-> 0], price |-> 2, category |-> "resale"],
     [location |-> [city |-> 1, suburb |-> 1, area |-> 1, roadName |-> 1],
      coordinates |-> [lat |-> 2, lng |-> 1], price |-> 5, category |-> "rental"],
     [location |-> [city |-> 1, suburb |-> 1, area |-> 1, roadName |-> 1],
      coordinates |-> [lat |-> 0, lng |-> 0], price |-> 5, category |-> "resale"]}

\* the criteria of the simple search that the listing side sends
ListingCriteria ==
    {[NoCriteria EXCEPT !.roadName = rn, !.category = cat, !.minPrice = mn,
                        !.maxPrice = mx, !.status = st, !.lat = la, !.lng = la,
                        !.radius = ra] :
        rn \in {None, Some(1)}, cat \in {None, Some("rental")},
        mn \in {None, Some(3)}, mx \in {None, Some(2)},
        st \in {None, Some("sold")}, la \in {None, Some(0)},
        ra \in {None, Some(0), Some(3)}}

\* the filters of the advanced search that the listing side sends
ListingFilters ==
    {[NoFilter EXCEPT !.locations = lo, !.categories = ca, !.priceRanges = pr,
                      !.statuses = st, !.coordinateFilters = co] :
        lo \in {<<>>, <<[city |-> 1, suburb |-> 1, area |-> 1, roadName |-> 1]>>},
        ca \in {<<>>, <<"resale", "rental">>, <<"rental", "rental">>},
        pr \in {<<>>, <<<<Some(1), Some(5)>>, <<Some(2), None>>>>,
                <<<<None, Some(2)>>>>},
        st \in {<<>>, <<"sold">>},
        co \in {<<>>, <<[lat |-> 0, lng |-> 0, radius |-> 0],
                        [lat |-> 0, lng |-> 0, radius |-> 1]>>}}

InitListing == Start(MaxListingSteps) /\ FrontendIdle

NextListing ==
    \/ Tick
    \/ \E c \in ListingCallers, r \in ListingRoles : addAgent(c, 2, 1, 1, r)
    \/ \E c \in ListingCallers, i \in ListingInputs :
          addProperty(c, 1, 1, i.location, i.coordinates, i.price, i.category,
                      "residential", "bhk2", "furnished", <<>>)
    \/ \E c \in ListingCallers, id \in DOMAIN properties :
          updateProperty(c, id, 1, 1, properties[id].location,
                         properties[id].coordinates, properties[id].price,
                         properties[id].category, "residential", "bhk2",
                         "furnished", "sold", <<>>)
    \/ \E c \in ListingCallers, id \in PropertyIdArgs : getProperty(c, id)
    \/ \E c \in ListingCallers : getAllProperties(c)
    \/ \E c \in ListingCallers, cr \in {NoCriteria} : searchAndFilterProperties(c, cr)
    \/ \E c \in ListingCallers, f \in {NoFilter} : advancedFilterProperties(c, f)
    \/ \E c \in ListingCallers : getConfigurationDistribution(c)
    \/ \E c \in ListingCallers : getFurnishingDistribution(c)
    \/ \E c \in ListingCallers : getCombinedAnalytics(c)

SpecListing == InitListing /\ [][NextListing]_vars

(* ----------------------- the reset control workload -------------------- *)
\* A viewer at the admin reset control, while the administrator registers
\* agents and assigns Identity Gate roles behind it.
MaxControlSteps == 3

InitControl ==
    /\ Start(MaxControlSteps)
    /\ \E v \in ControlViewers : control = ControlIdle(v)
    /\ loader = LoaderIdle("valid", FALSE)
    /\ picker = PickerIdle(TRUE)

NextControl ==
    \/ isCallerAdminSettles
    \/ \E t \in ConfirmationTexts : onConfirmationChange(t)
    \/ handleDialogClose
    \/ handleReset
    \/ resetMutationSettles
    \/ \E c \in ControlViewers, u \in ControlViewers, r \in {"admin", "user"} :
          assignCallerUserRole(c, u, r)
    \/ \E c \in ControlViewers, a \in ControlViewers : addAgent(c, a, 1, 1, "agent")

SpecControl == InitControl /\ [][NextControl]_vars

(* ------------------------- the map loader workload --------------------- *)
\* PropertyMap mounts with some API key, with or without the libraries loaded
\* already; timers fire and script loads settle, so the loader keeps going.
InitLoader ==
    /\ Start(0)
    /\ control = ControlIdle(1)
    /\ \E k \in ApiKeys, l \in BOOLEAN : loader = LoaderIdle(k, l)
    /\ picker = PickerIdle(TRUE)

LoaderProgress ==
    \/ loadEffect
    \/ backoffElapses
    \/ attemptLoadSucceeds
    \/ \E m \in LoadErrors : attemptLoadFails(m)

NextLoader ==
    \/ loadEffect
    \/ backoffElapses
    \/ attemptLoadSucceeds
    \/ \E m \in LoadErrors : attemptLoadFails(m)
    \/ gm_authFailure
    \/ \E t \in GoogleMapsErrorTypes : handleGoogleMapsError(t)
    \/ handleRetry

SpecLoader == InitLoader /\ [][NextLoader]_vars /\ WF_vars(LoaderProgress)

(* ------------------------ the place picker workload -------------------- *)
\* Suggestions of the Places Autocomplete are selected one after another, on
\* a map that was given onPlaceSelected or not.
InitPlaces ==
    /\ Start(0)
    /\ control = ControlIdle(1)
    /\ loader = LoaderIdle("valid", FALSE)
    /\ \E h \in BOOLEAN : picker = PickerIdle(h)

NextPlaces == \E place \in Places : place_changed(place)

SpecPlaces == InitPlaces /\ [][NextPlaces]_vars

(* =============================== claims ================================ *)
\* the step is a completed update call (it is then recorded in last')
CallStep == last'.step # last.step

\* C1: right after resetToFreshDraft completed, all four collections are
\* empty: for an administrator getAllAgents, getAllProperties and
\* getAllInquiries answer the empty sequence and getCallerUserProfile null.
C1_ResetEmptiesAll ==
    last.op = "resetToFreshDraft" =>
        /\ DOMAIN agents = {}
        /\ DOMAIN properties = {}
        /\ DOMAIN inquiries = {}
        /\ DOMAIN userProfiles = {}
        /\ \A c \in Principals : IsAdmin(c) =>
              /\ getAllAgentsErr(c) = Ok /\ getAllAgentsRet = <<>>
              /\ viewPropertiesErr(c) = Ok /\ getAllPropertiesRet = <<>>
              /\ getAllInquiriesErr(c) = Ok /\ getAllInquiriesRet(c) = <<>>
              /\ getCallerUserProfileErr(c) = Ok
              /\ getCallerUserProfileRet(c) = Null

\* a reset completed on a store that held agents, properties and inquiries
C1_Witness ==
    /\ last.op = "resetToFreshDraft"
    /\ last.before[1] > 0 /\ last.before[2] > 0 /\ last.before[3] > 0
    /\ \E c \in Principals : IsAdmin(c)

\* C2: for every caller who is not an administrator resetToFreshDraft answers
\* Unauthorized, and a step that is such a call changes none of the four
\* collections.
C2_NonAdminResetRejected ==
    /\ [](\A c \in Principals :
            ~IsAdmin(c) => resetToFreshDraftErr(c) = Unauthorized)
    /\ [][\A c \in Principals :
            (~IsAdmin(c) /\ resetToFreshDraft(c)) => UNCHANGED stores]_vars

\* an active agent who is no administrator faces four non-empty collections
C2_Witness ==
    /\ \A i \in 1 .. 4 : Sizes[i] > 0
    /\ \E c \in Principals :
          /\ ~IsAdmin(c) /\ getAgentRole(c) # Null
          /\ resetToFreshDraftErr(c) = Unauthorized

\* C3: addAgent, updateAgent and deactivateAgent answer Unauthorized to every
\* caller who is not an administrator; a call of theirs that completes was made
\* by an administrator, and the agents collection changes in no other call.
AgentUpdates == {"addAgent", "updateAgent", "deactivateAgent"}

C3_AgentManagementAdminOnly ==
    /\ [](\A c \in Principals, a \in Principals :
            ~IsAdmin(c) => /\ addAgentErr(c) = Unauthorized
                           /\ updateAgentErr(c, a) = Unauthorized
                           /\ deactivateAgentErr(c, a) = Unauthorized)
    /\ [][/\ (CallStep /\ last'.op \in AgentUpdates) => IsAdmin(last'.caller)
          /\ agents' # agents => (CallStep /\ IsAdmin(last'.caller))]_vars

\* an active agent whose Agent role is admin, but who is no administrator,
\* is refused the update of an agent record that exists
C3_Witness ==
    \E c \in Principals :
        /\ ~IsAdmin(c) /\ getAgentRole(c) = "admin"
        /\ \E a \in DOMAIN agents : a # c /\ updateAgentErr(c, a) = Unauthorized

\* C4: updateProperty by a caller who is no administrator on a stored property
\* listed by someone else answers Unauthorized, whatever the caller's role; an
\* updateProperty that completes was made by the lister or an administrator.
C4_OnlyListerOrAdminUpdates ==
    /\ [](\A c \in Principals, id \in DOMAIN properties :
            (~IsAdmin(c) /\ properties[id].listedBy # c)
                => updatePropertyErr(c, id) = Unauthorized)
    /\ [][(CallStep /\ last'.op = "updateProperty")
            => (IsAdmin(last'.caller)
                \/ properties[last'.target].listedBy = last'.caller)]_vars

\* agent A may manage properties, agent B listed one, neither is administrator
C4_Witness ==
    \E c \in Principals, id \in DOMAIN properties :
        /\ ~IsAdmin(c) /\ canManageProperties(c)
        /\ properties[id].listedBy # c
        /\ ~IsAdmin(properties[id].listedBy)
        /\ updatePropertyErr(c, id) = Unauthorized

\* C5: a caller without base access or without the capability of the
\* operation is answered Unauthorized by updateProperty, updateInquiry,
\* getInquiry and addInquiry, whether or not the entity named exists.
C5_AuthorizationBeforeExistence ==
    \A c \in Principals :
        /\ (~HasPermission(c, "user") \/ ~canManageProperties(c)) =>
              \A id \in PropertyIdArgs : updatePropertyErr(c, id) = Unauthorized
        /\ (~HasPermission(c, "user") \/ ~canManageInquiries(c)) =>
              /\ \A id \in InquiryIdArgs, a \in Principals :
                    updateInquiryErr(c, id, a) = Unauthorized
              /\ \A id \in InquiryIdArgs : getInquiryErr(c, id) = Unauthorized
              /\ \A pid \in PropertyIdArgs, a \in Principals :
                    addInquiryErr(c, pid, a) = Unauthorized

\* where key k stands in the order of insertion
Position(log, k) == CHOOSE i \in 1 .. Len(log) : log[i] = k

\* ascending createdAt, equal createdAt in the order of insertion
InEnumerationOrder(result, log) ==
    \A i \in 1 .. Len(result), j \in 1 .. Len(result) :
        i < j => \/ result[i].createdAt < result[j].createdAt
                 \/ /\ result[i].createdAt = result[j].createdAt
                    /\ Position(log, result[i].id) < Position(log, result[j].id)

\* C6: every getAll* operation and every property filter returns its entities
\* in ascending createdAt order, entities of equal createdAt in the order they
\* were inserted.
C6_StableEnumerationOrder ==
    /\ InEnumerationOrder(getAllAgentsRet, agentLog)
    /\ InEnumerationOrder(getAllPropertiesRet, propertyLog)
    /\ \A c \in Principals : InEnumerationOrder(getAllInquiriesRet(c), inquiryLog)
    /\ \A cat \in Categories, ty \in PropertyTypes, cfg \in Configurations :
          /\ InEnumerationOrder(getPropertiesByCategoryRet(cat), propertyLog)
          /\ InEnumerationOrder(getPropertiesByPropertyTypeRet(ty), propertyLog)
          /\ InEnumerationOrder(getPropertiesByCategoryAndTypeRet(cat, ty),
                                propertyLog)
          /\ InEnumerationOrder(filterPropertiesByConfigurationRet(cfg),
                                propertyLog)
          /\ InEnumerationOrder(filterPropertiesByCategoryAndConfigRet(cat, cfg),
                                propertyLog)
    /\ InEnumerationOrder(searchAndFilterPropertiesRet(NoCriteria), propertyLog)
    /\ InEnumerationOrder(advancedFilterPropertiesRet(NoFilter), propertyLog)

\* the elements of a sequence
Range(s) == {s[i] : i \in 1 .. Len(s)}

OwnInquiries(caller) ==
    {inquiries[k] : k \in {x \in DOMAIN inquiries :
                              inquiries[x].assignedAgent = caller}}

\* C7: for an active assistant who is no administrator getAllInquiries
\* succeeds and returns exactly the stored inquiries assigned to the caller,
\* each once, in ascending createdAt order.
C7_AssistantSeesOwnInquiries ==
    \A c \in Principals :
        (~IsAdmin(c) /\ getAgentRole(c) = "assistant") =>
            LET r == getAllInquiriesRet(c) IN
            /\ getAllInquiriesErr(c) = Ok
            /\ Range(r) = OwnInquiries(c)
            /\ Len(r) = Cardinality(OwnInquiries(c))
            /\ \A i \in 1 .. Len(r), j \in 1 .. Len(r) :
                  i < j => r[i].createdAt <= r[j].createdAt

\* an assistant holds an inquiry of their own while another agent holds one too
C7_Witness ==
    \E c \in Principals :
        /\ ~IsAdmin(c) /\ getAgentRole(c) = "assistant"
        /\ OwnInquiries(c) # {}
        /\ \E k \in DOMAIN inquiries : inquiries[k].assignedAgent # c
        /\ Range(getAllInquiriesRet(c)) = OwnInquiries(c)

\* C8: addInquiry or updateInquiry by an active assistant who is no
\* administrator, naming another active agent as assignedAgent, answers
\* Unauthorized; administrators and active agents of role admin, agent or
\* juniorAgent are not refused for naming another active agent.
C8_AssistantAssignsSelfOnly ==
    \A c \in Principals, a \in Principals :
        (a # c /\ isValidActiveAgent(a)) =>
            /\ (~IsAdmin(c) /\ getAgentRole(c) = "assistant") =>
                  /\ \A pid \in PropertyIdArgs :
                        addInquiryErr(c, pid, a) = Unauthorized
                  /\ \A id \in InquiryIdArgs :
                        updateInquiryErr(c, id, a) = Unauthorized
            /\ (HasPermission(c, "user")
                /\ (IsAdmin(c) \/ getAgentRole(c) \in {"admin", "agent", "juniorAgent"})) =>
                  \A pid \in DOMAIN properties : addInquiryErr(c, pid, a) = Ok

\* C9: a caller who is no administrator and whose active role is juniorAgent
\* or assistant is answered Unauthorized by getInquiry and updateInquiry on a
\* stored inquiry assigned to someone else and by getInquiriesByAgent for
\* another agent; getAllInquiries and getInquiriesByProperty show such a caller
\* only inquiries assigned to the caller; an updateInquiry that completes was
\* made by the assignee or by a caller who manages all inquiries.
C9_OthersInquiriesOutOfReach ==
    /\ [](\A c \in Principals :
            (~IsAdmin(c) /\ getAgentRole(c) \in {"juniorAgent", "assistant"}) =>
                /\ \A id \in DOMAIN inquiries :
                      inquiries[id].assignedAgent # c =>
                          /\ getInquiryErr(c, id) = Unauthorized
                          /\ \A a \in Principals :
                                updateInquiryErr(c, id, a) = Unauthorized
                /\ \A o \in Principals \ {c} :
                      getInquiriesByAgentErr(c, o) = Unauthorized
                /\ \A i \in Range(getAllInquiriesRet(c)) : i.assignedAgent = c
                /\ \A pid \in PropertyIdArgs :
                      \A i \in Range(getInquiriesByPropertyRet(c, pid)) :
                          i.assignedAgent = c)
    /\ [][(CallStep /\ last'.op = "updateInquiry") =>
            \/ canManageAllInquiries(last'.caller)
            \/ inquiries[last'.target].assignedAgent = last'.caller]_vars

\* a junior agent faces a stored inquiry that is assigned to another agent
C9_Witness ==
    \E c \in Principals, id \in DOMAIN inquiries :
        /\ ~IsAdmin(c) /\ getAgentRole(c) = "juniorAgent"
        /\ inquiries[id].assignedAgent # c
        /\ getInquiryErr(c, id) = Unauthorized
        /\ updateInquiryErr(c, id, c) = Unauthorized

\* C10: an active agent whose Agent role is admin is permitted addAgent,
\* updateAgent, deactivateAgent and resetToFreshDraft and the update of every
\* stored property, also one listed by another agent.
C10_AgentRoleAdminHasAdminColumn ==
    \A c \in Principals :
        getAgentRole(c) = "admin" =>
            /\ addAgentErr(c) = Ok
            /\ resetToFreshDraftErr(c) = Ok
            /\ \A a \in DOMAIN agents :
                  updateAgentErr(c, a) = Ok /\ deactivateAgentErr(c, a) = Ok
            /\ \A id \in DOMAIN properties : updatePropertyErr(c, id) = Ok

C12_DeactivationTakesEffect ==
    \A a \in DOMAIN agents :
        /\ agents[a].active => getAgentRole(a) = agents[a].role
        /\ (~agents[a].active /\ ~IsAdmin(a)) =>
              /\ addPropertyErr(a) = Unauthorized
              /\ viewPropertiesErr(a) = Unauthorized
              /\ analyticsErr(a) = Unauthorized
              /\ getAllAgentsErr(a) = Unauthorized
              /\ getAllInquiriesErr(a) = Unauthorized
              /\ getInquiriesByPropertyErr(a) = Unauthorized
              /\ \A b \in Principals :
                    /\ getAgentErr(a, b) = Unauthorized
                    /\ getInquiriesByAgentErr(a, b) = Unauthorized
              /\ \A pid \in PropertyIdArgs :
                    /\ updatePropertyErr(a, pid) = Unauthorized
                    /\ getPropertyErr(a, pid) = Unauthorized
                    /\ \A b \in Principals : addInquiryErr(a, pid, b) = Unauthorized
              /\ \A id \in InquiryIdArgs :
                    /\ getInquiryErr(a, id) = Unauthorized
                    /\ \A b \in Principals : updateInquiryErr(a, id, b) = Unauthorized

\* no caller gets an inquiry accepted that names agent a
AssignmentRejected(a) ==
    \A c \in Principals :
        /\ \A pid \in PropertyIdArgs : addInquiryErr(c, pid, a) # Ok
        /\ \A id \in InquiryIdArgs : updateInquiryErr(c, id, a) # Ok

\* C13: a deactivateAgent(a) that completes sets active to false and
\* updatedAt to the time of the call in the record of a and changes nothing
\* else in agents, properties, inquiries and userProfiles; from then on, while
\* a stays deactivated, addInquiry and updateInquiry naming a are rejected.
C13_DeactivationIsSoft ==
    /\ [][(CallStep /\ last'.op = "deactivateAgent") =>
            \A c \in Principals, a \in Principals :
                deactivateAgent(c, a) =>
                    /\ agents' = [agents EXCEPT ![a] =
                                    [agents[a] EXCEPT !.active = FALSE,
                                                      !.updatedAt = now]]
                    /\ UNCHANGED <<properties, inquiries, userProfiles>>
                    /\ AssignmentRejected(a)']_vars
    /\ [](\A a \in DOMAIN agents : ~agents[a].active => AssignmentRejected(a))

\* the agent just deactivated has a listed property and an assigned inquiry
C13_Witness ==
    /\ last.op = "deactivateAgent"
    /\ \E k \in DOMAIN properties : properties[k].listedBy = last.target[1]
    /\ \E k \in DOMAIN inquiries : inquiries[k].assignedAgent = last.target[1]
    /\ ~agents[last.target[1]].active

\* C14: advancedFilterProperties with all eight dimensions empty returns the
\* sequence getAllProperties returns.
C14_EmptyFilterIsGetAll == advancedFilterPropertiesRet(NoFilter) = getAllPropertiesRet

Dimensions ==
    {"locations", "categories", "propertyTypes", "configurations", "furnishings",
     "priceRanges", "statuses", "coordinateFilters"}

\* the stored properties that match some value of every non-empty dimension
AdvancedMatches(f) ==
    {p \in Range(AllProperties) :
        \A d \in Dimensions :
            f[d] = <<>> \/ \E i \in 1 .. Len(f[d]) : DimensionMatch(d, p, f[d][i])}

\* C15: advancedFilterProperties returns exactly, each once, the stored
\* properties that match at least one value of every non-empty dimension;
\* repeated or overlapping values of a dimension duplicate nothing.
C15_AdvancedFilterOrAnd ==
    \A f \in ListingFilters :
        LET r == advancedFilterPropertiesRet(f) IN
        /\ Range(r) = AdvancedMatches(f)
        /\ Len(r) = Cardinality(AdvancedMatches(f))

\* two coordinate filters and two price ranges each hold the same property,
\* while another stored property is filtered out
C15_Witness ==
    \E f \in ListingFilters :
        /\ Len(Combined("coordinateFilters", f.coordinateFilters))
              > Cardinality(Range(Combined("coordinateFilters", f.coordinateFilters)))
        /\ Len(Combined("priceRanges", f.priceRanges))
              > Cardinality(Range(Combined("priceRanges", f.priceRanges)))
        /\ Len(advancedFilterPropertiesRet(f)) = 1
        /\ Len(AllProperties) = 2

\* the stored properties that satisfy every present criterion
SearchMatches(cr) ==
    {p \in Range(AllProperties) :
        /\ cr.city = None \/ cr.city = Some(p.location.city)
        /\ cr.suburb = None \/ cr.suburb = Some(p.location.suburb)
        /\ cr.area = None \/ cr.area = Some(p.location.area)
        /\ cr.roadName = None \/ cr.roadName = Some(p.location.roadName)
        /\ cr.category = None \/ cr.category = Some(p.category)
        /\ cr.propertyType = None \/ cr.propertyType = Some(p.propertyType)
        /\ cr.configuration = None \/ cr.configuration = Some(p.configuration)
        /\ cr.furnishing = None \/ cr.furnishing = Some(p.furnishing)
        /\ cr.status = None \/ cr.status = Some(p.status)
        /\ cr.minPrice = None \/ cr.minPrice[1] <= p.price
        /\ cr.maxPrice = None \/ p.price <= cr.maxPrice[1]
        /\ (cr.lat # None /\ cr.lng # None /\ cr.radius # None) =>
              (cr.lat[1] - p.coordinates.lat) * (cr.lat[1] - p.coordinates.lat)
              + (cr.lng[1] - p.coordinates.lng) * (cr.lng[1] - p.coordinates.lng)
                 <= cr.radius[1] * cr.radius[1]}

\* C16: searchAndFilterProperties returns exactly, each once, the stored
\* properties that satisfy every present criterion: equality on the place,
\* category, type, configuration, furnishing and status fields, minPrice <=
\* price <= maxPrice for the present bounds, and squared distance <= radius^2
\* when lat, lng and radius are all present.
C16_SearchIsConjunction ==
    \A cr \in ListingCriteria :
        LET r == searchAndFilterPropertiesRet(cr) IN
        /\ Range(r) = SearchMatches(cr)
        /\ Len(r) = Cardinality(SearchMatches(cr))

\* radius 0 around (0, 0): the property at the centre is found, the one at
\* squared distance 5 is not
C16_Witness ==
    \E cr \in ListingCriteria :
        /\ cr.lat = Some(0) /\ cr.lng = Some(0) /\ cr.radius = Some(0)
        /\ cr.roadName = None /\ cr.category = None /\ cr.minPrice = None
        /\ cr.maxPrice = None /\ cr.status = None
        /\ Len(AllProperties) = 2
        /\ Len(searchAndFilterPropertiesRet(cr)) = 1
        /\ searchAndFilterPropertiesRet(cr)[1].coordinates = [lat |-> 0, lng |-> 0]

OwnProperties(caller) ==
    {properties[k] : k \in {x \in DOMAIN properties : properties[x].listedBy = caller}}

\* the properties the analytics of a caller are about
Scope(caller) ==
    IF IsAdmin(caller) THEN Range(AllProperties) ELSE OwnProperties(caller)

\* the three analytics answers to a caller
Analytics(caller) ==
    <<getCombinedAnalyticsRet(caller), getConfigurationDistributionRet(caller),
      getFurnishingDistributionRet(caller)>>

\* C17: the analytics of an administrator count every stored property, those
\* of any other permitted caller count the caller's own listings only; across
\* a step that leaves the caller's own listings as they were the analytics of
\* a caller who is no administrator stay the same, whatever else was listed.
C17_AnalyticsScoped ==
    /\ [](\A c \in Principals : analyticsErr(c) = Ok =>
            /\ getCombinedAnalyticsRet(c).propertyDensity[1].propertyCount
                  = Cardinality(Scope(c))
            /\ \A v \in Configurations :
                  getConfigurationDistributionRet(c)[1].counts[v]
                     = Cardinality({p \in Scope(c) : p.configuration = v})
            /\ \A v \in Furnishings :
                  getFurnishingDistributionRet(c)[1].counts[v]
                     = Cardinality({p \in Scope(c) : p.furnishing = v}))
    /\ [][\A c \in Principals :
            (/\ ~IsAdmin(c) /\ ~IsAdmin(c)'
             /\ analyticsErr(c) = Ok /\ analyticsErr(c)' = Ok
             /\ OwnProperties(c)' = OwnProperties(c))
                => Analytics(c)' = Analytics(c)]_vars

\* an agent has a listing of their own next to a listing of someone else
C17_Witness ==
    \E c \in Principals :
        /\ ~IsAdmin(c) /\ analyticsErr(c) = Ok
        /\ OwnProperties(c) # {}
        /\ OwnProperties(c) # Range(AllProperties)
        /\ getCombinedAnalyticsRet(c).propertyDensity[1].propertyCount = 1

RECURSIVE PriceSum(_)
PriceSum(S) ==
    IF S = {} THEN 0
    ELSE LET p == CHOOSE x \in S : TRUE IN p.price + PriceSum(S \ {p})

\* C18: for the scoped property set S of a permitted caller getCombinedAnalytics
\* reports propertyCount = |S|, every category, propertyType, configuration and
\* furnishing count as the number of properties of S with that value, and
\* averagePrice absent when S is empty, else (sum of the prices of S) div |S|.
C18_CombinedAnalyticsCounts ==
    \A c \in Principals : analyticsErr(c) = Ok =>
        LET S == Scope(c)
            r == getCombinedAnalyticsRet(c).regionalDistribution[1]
        IN
        /\ r.propertyCount = Cardinality(S)
        /\ \A v \in Categories :
              r.categoryDistribution[v] = Cardinality({p \in S : p.category = v})
        /\ \A v \in PropertyTypes :
              r.propertyTypeDistribution[v]
                 = Cardinality({p \in S : p.propertyType = v})
        /\ \A v \in Configurations :
              r.configurationDistribution[v]
                 = Cardinality({p \in S : p.configuration = v})
        /\ \A v \in Furnishings :
              r.furnishingDistribution[v] = Cardinality({p \in S : p.furnishing = v})
        /\ r.averagePrice
              = IF S = {} THEN None ELSE Some(PriceSum(S) \div Cardinality(S))

\* prices 2 and 5 in scope: the average is 7 div 2 = 3
C18_Witness ==
    \E c \in Principals :
        /\ analyticsErr(c) = Ok
        /\ {p.price : p \in Scope(c)} = {2, 5}
        /\ Cardinality(Scope(c)) = 2
        /\ getCombinedAnalyticsRet(c).regionalDistribution[1].averagePrice = Some(3)

\* C19: when addProperty completes and returns id, getProperty(id) by the same
\* caller succeeds and returns the arguments given, with id the returned id,
\* status available, listedBy the caller and createdAt and updatedAt the time
\* of the call.
C19_AddPropertyRoundTrip ==
    [][(CallStep /\ last'.op = "addProperty") =>
        \A c \in ListingCallers, i \in ListingInputs, id \in DOMAIN properties' :
            (/\ addProperty(c, 1, 1, i.location, i.coordinates, i.price,
                            i.category, "residential", "bhk2", "furnished", <<>>)
             /\ id = last'.ret) =>
                /\ getPropertyErr(c, id)' = Ok
                /\ getPropertyRet(id)' =
                      [id |-> id, title |-> 1, description |-> 1,
                       location |-> i.location, coordinates |-> i.coordinates,
                       price |-> i.price, category |-> i.category,
                       propertyType |-> "residential", configuration |-> "bhk2",
                       furnishing |-> "furnished", status |-> "available",
                       listedBy |-> c, createdAt |-> now, updatedAt |-> now,
                       images |-> <<>>]]_vars

\* a property with unequal coordinates was just listed and reads back
C19_Witness ==
    /\ last.op = "addProperty"
    /\ getPropertyErr(last.caller, last.ret) = Ok
    /\ getPropertyRet(last.ret).coordinates = [lat |-> 2, lng |-> 1]
    /\ getPropertyRet(last.ret).listedBy = last.caller

\* C20: right after an addProperty that completed, the listedBy of the
\* property it created is the key of an Agent record.
C20_ListerHasAgentRecord ==
    last.op = "addProperty" => properties[last.ret].listedBy \in DOMAIN agents

\* C21: an addAgent, addProperty or addInquiry that completes adds exactly one
\* new key to its collection and leaves every record stored before as it was,
\* also when the key it derives is already stored.
C21_AddOnlyCreates ==
    [][/\ (CallStep /\ last'.op = "addAgent") =>
             /\ Cardinality(DOMAIN agents' \ DOMAIN agents) = 1
             /\ \A k \in DOMAIN agents : agents'[k] = agents[k]
       /\ (CallStep /\ last'.op = "addProperty") =>
             /\ Cardinality(DOMAIN properties' \ DOMAIN properties) = 1
             /\ \A k \in DOMAIN properties : properties'[k] = properties[k]
       /\ (CallStep /\ last'.op = "addInquiry") =>
             /\ Cardinality(DOMAIN inquiries' \ DOMAIN inquiries) = 1
             /\ \A k \in DOMAIN inquiries : inquiries'[k] = inquiries[k]]_vars

\* the profile stored for u, if any
ProfileOf(u) == IF u \in DOMAIN userProfiles THEN Some(userProfiles[u]) ELSE None

\* C22: the profile of u is created, changed or removed only by a
\* saveCallerUserProfile of u or by the resetToFreshDraft of an administrator;
\* saveCallerUserProfile by c stores the profile given under c and touches no
\* other collection; getUserProfile(u) by another caller succeeds only for an
\* administrator.
C22_ProfileOwnerWrites ==
    /\ [](\A c \in Principals, u \in Principals :
            (c # u /\ getUserProfileErr(c, u) = Ok) => IsAdmin(c))
    /\ [][/\ \A u \in Principals :
               ProfileOf(u)' # ProfileOf(u) =>
                   /\ CallStep
                   /\ \/ last'.op = "saveCallerUserProfile" /\ last'.caller = u
                      \/ last'.op = "resetToFreshDraft" /\ IsAdmin(last'.caller)
          /\ (CallStep /\ last'.op = "saveCallerUserProfile") =>
               /\ last'.caller \in DOMAIN userProfiles'
               /\ userProfiles'[last'.caller] \in InProfiles
               /\ UNCHANGED <<agents, properties, inquiries>>]_vars

\* a caller who is no administrator has just saved a profile next to the
\* profile of someone else, which the caller may not read
C22_Witness ==
    /\ last.op = "saveCallerUserProfile"
    /\ ~IsAdmin(last.caller)
    /\ \E u \in DOMAIN userProfiles :
          u # last.caller /\ getUserProfileErr(last.caller, u) = Unauthorized

\* C23: a call that fails (Unauthorized, NotFound or InvalidReference) has no
\* outcome in which one of the four collections differs from before, and
\* neither has any query call, whether it succeeds or fails.
C23_FailuresAndQueriesChangeNothing ==
    \A c \in Principals :
        /\ saveCallerUserProfileErr(c) # Ok =>
              ~ENABLED ((\E pr \in InProfiles : saveCallerUserProfile(c, pr))
                        /\ stores' # stores)
        /\ addAgentErr(c) # Ok =>
              ~ENABLED ((\E a \in Principals, r \in AgentRoles : addAgent(c, a, 1, 1, r))
                        /\ stores' # stores)
        /\ \A a \in Principals :
              /\ updateAgentErr(c, a) # Ok =>
                    ~ENABLED ((\E r \in AgentRoles : updateAgent(c, a, 1, 1, r))
                              /\ stores' # stores)
              /\ deactivateAgentErr(c, a) # Ok =>
                    ~ENABLED (deactivateAgent(c, a) /\ stores' # stores)
        /\ addPropertyErr(c) # Ok =>
              ~ENABLED ((\E l \in InLocations :
                            addProperty(c, 1, 1, l, [lat |-> 0, lng |-> 0], 5, "resale",
                                        "residential", "bhk2", "furnished", <<>>))
                        /\ stores' # stores)
        /\ \A id \in PropertyIdArgs :
              /\ updatePropertyErr(c, id) # Ok =>
                    ~ENABLED ((\E l \in InLocations :
                                  updateProperty(c, id, 1, 1, l, [lat |-> 0, lng |-> 0], 5,
                                                 "resale", "residential", "bhk2",
                                                 "furnished", "sold", <<>>))
                              /\ stores' # stores)
              /\ \A a \in Principals :
                    addInquiryErr(c, id, a) # Ok =>
                        ~ENABLED (addInquiry(c, id, 1, 1, "website", a, 1)
                                  /\ stores' # stores)
        /\ \A id \in InquiryIdArgs, a \in Principals :
              updateInquiryErr(c, id, a) # Ok =>
                  ~ENABLED (updateInquiry(c, id, 1, 1, "website", "closed", a, 1)
                            /\ stores' # stores)
        /\ resetToFreshDraftErr(c) # Ok =>
              ~ENABLED (resetToFreshDraft(c) /\ stores' # stores)
        /\ ~ENABLED ((\/ getCallerUserProfile(c)
                      \/ \E u \in Principals : getUserProfile(c, u)
                      \/ \E a \in Principals : getAgent(c, a)
                      \/ getAllAgents(c)
                      \/ \E id \in PropertyIdArgs : getProperty(c, id)
                      \/ getAllProperties(c)
                      \/ getPropertiesByCategory(c, "resale")
                      \/ getPropertiesByPropertyType(c, "residential")
                      \/ getPropertiesByCategoryAndType(c, "resale", "residential")
                      \/ filterPropertiesByConfiguration(c, "bhk2")
                      \/ filterPropertiesByCategoryAndConfig(c, "resale", "bhk2")
                      \/ searchAndFilterProperties(c, NoCriteria)
                      \/ advancedFilterProperties(c, NoFilter)
                      \/ getAllCities(c)
                      \/ getSuburbsForCity(c, 1)
                      \/ getAreasForSuburb(c, 1, 1)
                      \/ \E id \in InquiryIdArgs : getInquiry(c, id)
                      \/ getAllInquiries(c)
                      \/ \E a \in Principals : getInquiriesByAgent(c, a)
                      \/ \E id \in PropertyIdArgs : getInquiriesByProperty(c, id)
                      \/ getConfigurationDistribution(c)
                      \/ getFurnishingDistribution(c)
                      \/ getCombinedAnalytics(c))
                     /\ stores' # stores)

\* for one stored inquiry an update naming some agent is InvalidReference for
\* one caller and Unauthorized for another, and NotFound for an absent id
C23_Witness ==
    \E c \in Principals, id \in DOMAIN inquiries, a \in Principals :
        /\ updateInquiryErr(c, id, a) = InvalidReference
        /\ \E d \in Principals : updateInquiryErr(d, id, a) = Unauthorized
        /\ updateInquiryErr(c, AbsentInquiryId, a) = NotFound

\* the smallest and the largest of a non-empty set of numbers
MinOf(S) == CHOOSE x \in S : \A y \in S : x <= y
MaxOf(S) == CHOOSE x \in S : \A y \in S : y <= x

\* C27: in getCombinedAnalytics the priceRange of regionalDistribution and of
\* pricingHeatmap has minPrice the smallest and maxPrice the largest price of
\* the caller's scoped properties, and both absent when there is none.
C27_PriceRangeIsMinMax ==
    \A c \in Principals : analyticsErr(c) = Ok =>
        LET prices == {p.price : p \in Scope(c)}
            r == getCombinedAnalyticsRet(c)
        IN \A range \in {r.regionalDistribution[1].priceRange,
                         r.pricingHeatmap[1].priceRange} :
              IF prices = {}
              THEN range.minPrice = None /\ range.maxPrice = None
              ELSE /\ range.minPrice = Some(MinOf(prices))
                   /\ range.maxPrice = Some(MaxOf(prices))

\* C28: an updateProperty that completes leaves id, listedBy and createdAt of
\* the property as they were, an updateInquiry id, propertyId and createdAt, an
\* updateAgent id, active and createdAt; each keeps the keys of its collection,
\* every other record of it and the other collections as they were.
C28_UpdatesPreserveIdentity ==
    [][/\ (CallStep /\ last'.op = "updateProperty") =>
             LET k == last'.target IN
             /\ DOMAIN properties' = DOMAIN properties
             /\ properties'[k].id = k /\ properties[k].id = k
             /\ properties'[k].listedBy = properties[k].listedBy
             /\ properties'[k].createdAt = properties[k].createdAt
             /\ \A j \in DOMAIN properties \ {k} : properties'[j] = properties[j]
             /\ UNCHANGED <<agents, inquiries, userProfiles>>
       /\ (CallStep /\ last'.op = "updateInquiry") =>
             LET k == last'.target IN
             /\ DOMAIN inquiries' = DOMAIN inquiries
             /\ inquiries'[k].id = k /\ inquiries[k].id = k
             /\ inquiries'[k].propertyId = inquiries[k].propertyId
             /\ inquiries'[k].createdAt = inquiries[k].createdAt
             /\ \A j \in DOMAIN inquiries \ {k} : inquiries'[j] = inquiries[j]
             /\ UNCHANGED <<agents, properties, userProfiles>>
       /\ (CallStep /\ last'.op = "updateAgent") =>
             LET k == last'.target[1] IN
             /\ DOMAIN agents' = DOMAIN agents
             /\ agents'[k].id = k /\ agents[k].id = k
             /\ agents'[k].active = agents[k].active
             /\ agents'[k].createdAt = agents[k].createdAt
             /\ \A j \in DOMAIN agents \ {k} : agents'[j] = agents[j]
             /\ UNCHANGED <<properties, inquiries, userProfiles>>]_vars

\* an administrator has just moved a property listed by an agent to another
\* road, so that its id still names the road it was created at
C28_Witness ==
    /\ last.op = "updateProperty"
    /\ properties[last.target].location.roadName # last.target[4]
    /\ properties[last.target].listedBy # last.caller
    /\ properties[last.target].id = last.target

\* C29: every stored inquiry names a stored property and a stored Agent
\* record, and an addInquiry or updateInquiry that completes names an agent
\* that is active.
C29_ReferentialIntegrity ==
    /\ [](\A k \in DOMAIN inquiries :
            /\ inquiries[k].propertyId \in DOMAIN properties
            /\ inquiries[k].assignedAgent \in DOMAIN agents)
    /\ [][(CallStep /\ last'.op \in {"addInquiry", "updateInquiry"}) =>
            \A a \in Principals : a = last'.assignee[1] =>
                /\ isValidActiveAgent(a)
                /\ isValidActiveAgent(a)'
                /\ inquiries'[last'.target].assignedAgent = a]_vars

\* a stored inquiry is assigned to an agent who has since been deactivated
C29_Witness ==
    \E k \in DOMAIN inquiries :
        /\ inquiries[k].assignedAgent \in DOMAIN agents
        /\ ~agents[inquiries[k].assignedAgent].active
        /\ inquiries[k].propertyId \in DOMAIN properties

\* advanced filters in which every dimension is empty or holds one value
ListingSingleFilters ==
    {[NoFilter EXCEPT !.locations = lo, !.categories = ca, !.priceRanges = pr,
                      !.coordinateFilters = co] :
        lo \in {<<>>, <<[city |-> 1, suburb |-> 1, area |-> 1, roadName |-> 1]>>,
                <<[city |-> 1, suburb |-> 2, area |-> 1, roadName |-> 2]>>},
        ca \in {<<>>, <<"rental">>},
        pr \in {<<>>, <<<<Some(3), None>>>>, <<<<None, Some(2)>>>>,
                <<<<Some(2), Some(5)>>>>, <<<<None, None>>>>},
        co \in {<<>>, <<[lat |-> 0, lng |-> 0, radius |-> 0]>>,
                <<[lat |-> 0, lng |-> 0, radius |-> 3]>>}}
    \cup
    {[NoFilter EXCEPT !.locations = lo, !.propertyTypes = ty, !.configurations = cf,
                      !.furnishings = fu, !.statuses = st] :
        lo \in {<<>>, <<[city |-> 1, suburb |-> 1, area |-> 1, roadName |-> 2]>>},
        ty \in {<<>>, <<"residential">>},
        cf \in {<<>>, <<"bhk3">>},
        fu \in {<<>>, <<"furnished">>},
        st \in {<<>>, <<"sold">>}}

\* the value of a dimension as an optional criterion
OneOf(values) == IF values = <<>> THEN None ELSE Some(values[1])

\* the search criteria that say what a single-valued advanced filter says
CriteriaOf(f) ==
    [city |-> IF f.locations = <<>> THEN None ELSE Some(f.locations[1].city),
     suburb |-> IF f.locations = <<>> THEN None ELSE Some(f.locations[1].suburb),
     area |-> IF f.locations = <<>> THEN None ELSE Some(f.locations[1].area),
     roadName |-> IF f.locations = <<>> THEN None ELSE Some(f.locations[1].roadName),
     category |-> OneOf(f.categories),
     propertyType |-> OneOf(f.propertyTypes),
     configuration |-> OneOf(f.configurations),
     furnishing |-> OneOf(f.furnishings),
     minPrice |-> IF f.priceRanges = <<>> THEN None ELSE f.priceRanges[1][1],
     maxPrice |-> IF f.priceRanges = <<>> THEN None ELSE f.priceRanges[1][2],
     status |-> OneOf(f.statuses),
     lat |-> IF f.coordinateFilters = <<>> THEN None
             ELSE Some(f.coordinateFilters[1].lat),
     lng |-> IF f.coordinateFilters = <<>> THEN None
             ELSE Some(f.coordinateFilters[1].lng),
     radius |-> IF f.coordinateFilters = <<>> THEN None
                ELSE Some(f.coordinateFilters[1].radius)]

\* C30: for an advanced filter in which every non-empty dimension holds one
\* value, advancedFilterProperties returns the same set of properties as
\* searchAndFilterProperties with the corresponding criteria.
C30_SearchModesAgree ==
    \A f \in ListingSingleFilters :
        Range(advancedFilterPropertiesRet(f))
           = Range(searchAndFilterPropertiesRet(CriteriaOf(f)))

\* one location and one price range: both modes find one of two properties
C30_Witness ==
    \E f \in ListingSingleFilters :
        /\ f.locations # <<>> /\ f.priceRanges # <<>>
        /\ Len(AllProperties) = 2
        /\ Len(advancedFilterPropertiesRet(f)) = 1
        /\ Len(searchAndFilterPropertiesRet(CriteriaOf(f))) = 1

\* C24: in the admin reset control the resetToFreshDraft call is sent only
\* when the control is rendered for a viewer whose isCallerAdmin answer is
\* loaded and true and the typed text is exactly RESET; while a reset is
\* pending no second call is sent and neither the dialog nor the text changes;
\* when the reset settles, a success has emptied the stores, closed the dialog
\* and cleared the text, and a failure has left dialog, text and the actor's
\* state as they were.
C24_ResetControlContract ==
    [][/\ control'.issued # control.issued =>
             /\ Rendered
             /\ control.adminData = "true"
             /\ control.confirmationText = "RESET"
             /\ ~control.isPending
             /\ control'.isPending
             /\ control'.issued = control.issued + 1
       /\ control.isPending /\ control'.isPending =>
             /\ control'.issued = control.issued
             /\ control'.isDialogOpen = control.isDialogOpen
             /\ control'.confirmationText = control.confirmationText
       /\ control.isPending /\ ~control'.isPending =>
             /\ control'.outcome \in {"success", "error"}
             /\ control'.outcome = "success" =>
                   /\ ~control'.isDialogOpen
                   /\ control'.confirmationText = ""
                   /\ last'.op = "resetToFreshDraft"
                   /\ last'.caller = control.viewer
                   /\ Sizes' = <<0, 0, 0, 0>>
             /\ control'.outcome = "error" =>
                   /\ control'.isDialogOpen = control.isDialogOpen
                   /\ control'.confirmationText = "RESET"
                   /\ UNCHANGED backend]_vars

\* C24 witness: the viewer sent two resets; the later one succeeded on stores
\* that held an agent, emptied them and cleared the text
C24_Witness ==
    /\ control.issued = 2
    /\ control.outcome = "success"
    /\ ~control.isPending
    /\ control.confirmationText = ""
    /\ last.op = "resetToFreshDraft"
    /\ last.before[1] = 1
    /\ agents = EmptyMap

\* the long names of the place's address components of one of the given types
ComponentNames(place, types) ==
    IF place.address_components = None THEN {}
    ELSE {place.address_components[1][i].long_name :
            i \in {j \in DOMAIN place.address_components[1] :
                     place.address_components[1][j].types \cap types # {}}}

\* the field carries a matching component's name, and is empty without one
FieldMatches(value, place, types) ==
    IF ComponentNames(place, types) = {} THEN value = ""
    ELSE value \in ComponentNames(place, types)

\* C25: a Places Autocomplete selection that has geometry invokes
\* onPlaceSelected exactly once with { city, suburb, area, roadName, coords },
\* each of the four strings being the name of the matching address component
\* (locality; sublocality_level_1 or sublocality; sublocality_level_2 or
\* neighborhood; route) and the empty string when the place has no such
\* component; a selection without geometry invokes no callback.
C25_PlaceSelectedFields ==
    [][picker'.changes # picker.changes =>
          LET place == picker'.place[1] IN
          IF place.geometry = None
          THEN picker'.calls = picker.calls /\ picker'.dragEnds = picker.dragEnds
          ELSE picker.hasCallback =>
                 /\ Len(picker'.calls) = Len(picker.calls) + 1
                 /\ SubSeq(picker'.calls, 1, Len(picker.calls)) = picker.calls
                 /\ LET arg == picker'.calls[Len(picker'.calls)] IN
                      /\ arg.coords = place.geometry[1]
                      /\ FieldMatches(arg.city, place, {"locality"})
                      /\ FieldMatches(arg.suburb, place,
                                      {"sublocality_level_1", "sublocality"})
                      /\ FieldMatches(arg.area, place,
                                      {"sublocality_level_2", "neighborhood"})
                      /\ FieldMatches(arg.roadName, place, {"route"})]_vars

====
